---------------------------- MODULE Spec2Model ----------------------------
(***************************************************************************)
(* A model of BAM, a tiled dirty-rectangle GUI engine (src/bam.c, bam.h).  *)
(*                                                                         *)
(* The context structure `struct bam` is the record variable bam.  Static  *)
(* functions of bam.c are operators from context to context; the public    *)
(* API calls, the host events and the steps of the event loop are actions. *)
(* Pointers into the dirty buffer are word indices, pointers into the      *)
(* widget buffer are handles (index from widget_buffer_begin), NULL is -1. *)
(* A 32-bit word of the dirty buffer is the set of its set bit positions   *)
(* (31 is the most significant bit).                                       *)
(***************************************************************************)
EXTENDS Integers, Sequences, FiniteSets, TLC

VARIABLES
    bam,        \* the context (struct bam)
    stack,      \* the C call stack: bam_start frames and widget callback frames
    op,         \* history: the last API call, event or loop step that ran
    host_log,   \* history: the host calls issued by the last dirty_clean pass
    fn_in,      \* argument of the function under test (function specifications)
    fn_out,     \* observation made before the function under test ran
    fn_pc       \* "call" before the function under test ran, "done" after

vars == <<bam, stack, op, host_log, fn_in, fn_out, fn_pc>>

NULL == -1

\* ------------------------------------------------------------------ C arithmetic

\* C integer division (truncates toward zero), divisor > 0
CDiv(a, b) == IF a >= 0 THEN a \div b ELSE -((-a) \div b)

\* conversion to int16_t
Int16(v) == ((v + 32768) % 65536) - 32768

min_int(a, b) == IF a < b THEN a ELSE b

max_int(a, b) == IF a > b THEN a ELSE b

\* F applied to the value of x, which is computed once however often F uses it
With(x, F(_)) == CHOOSE r \in { F(y) : y \in {x} } : TRUE

SetMax(S) == CHOOSE m \in S : \A n \in S : n <= m

\* ------------------------------------------------------------------ rectangles

Rect(x1, y1, x2, y2) == [x1 |-> x1, y1 |-> y1, x2 |-> x2, y2 |-> y2]

rect_init(x, y, width, height) == Rect(x, y, x + width, y + height)

rect_init_empty == Rect(0, 0, 0, 0)

rect_empty(rect) == rect.x2 <= rect.x1 \/ rect.y2 <= rect.y1

rect_width(rect) == rect.x2 - rect.x1

rect_height(rect) == rect.y2 - rect.y1

rect_contains_point_inclusive(rect, x, y) ==
    (x >= rect.x1) /\ (x <= rect.x2) /\ (y >= rect.y1) /\ (y <= rect.y2)

rect_contains_point(rect, x, y) ==
    (x >= rect.x1) /\ (x < rect.x2) /\ (y >= rect.y1) /\ (y < rect.y2)

rect_overlaps(rect, other) ==
    /\ rect.x1 < other.x2 /\ other.x1 < rect.x2
    /\ rect.y1 < other.y2 /\ other.y1 < rect.y2

rect_translate(rect, dx, dy) ==
    Rect(rect.x1 + dx, rect.y1 + dy, rect.x2 + dx, rect.y2 + dy)

rect_set_pos(rect, x, y) == rect_translate(rect, x - rect.x1, y - rect.y1)

\* a plausible slip: the line for y2, copied from the one for x2, still reads rect.x2
rect_intersect_copied(rect, other) ==
    Rect(max_int(rect.x1, other.x1),
         max_int(rect.y1, other.y1),
         max_int(other.x1, min_int(rect.x2, other.x2)),
         max_int(other.y1, min_int(rect.x2, other.y2)))

rect_intersect(rect, other) ==
    Rect(max_int(rect.x1, other.x1),
         max_int(rect.y1, other.y1),
         max_int(other.x1, min_int(rect.x2, other.x2)),
         max_int(other.y1, min_int(rect.y2, other.y2)))

\* ------------------------------------------------------------------ dirty buffer

BAM__UINT32_N_BITS == 32

\* 0xFFFFFFFF as a set of bit positions
BAM__UINT32_MASK == 0 .. (BAM__UINT32_N_BITS - 1)

\* (uint32_t) (BAM__UINT32_MASK >> n), 0 <= n < 32
MaskShr(n) == { b \in BAM__UINT32_MASK : b + n <= BAM__UINT32_N_BITS - 1 }

\* (uint32_t) (BAM__UINT32_MASK << n), 0 <= n < 32
MaskShl(n) == { b \in BAM__UINT32_MASK : b >= n }

\* __builtin_clz(word), word non-zero
Clz(word) == (BAM__UINT32_N_BITS - 1) - SetMax(word)

BAM__TILE_COUNT(disp, tile) == CDiv(disp + tile - 1, tile)

BAM__TILE_PITCH(n_tile_cols) ==
    CDiv(n_tile_cols + BAM__UINT32_N_BITS - 1, BAM__UINT32_N_BITS)

BAM_DIRTY_BUFFER_SIZE(disp_width, disp_height, tile_width, tile_height) ==
    BAM__TILE_PITCH(BAM__TILE_COUNT(disp_width, tile_width))
        * BAM__TILE_COUNT(disp_height, tile_height)

\* *ptr |= word, for a pointer inside the buffer
OrWord(buf, ptr, word) ==
    IF ptr \in DOMAIN buf THEN [buf EXCEPT ![ptr] = @ \cup word] ELSE buf

\* the inner loop of dirty_mark_rect: *mid_ptr = MASK for left_ptr < mid_ptr < right_ptr
FillMid(buf, left_ptr, right_ptr) ==
    [i \in DOMAIN buf |->
        IF left_ptr < i /\ i < right_ptr THEN BAM__UINT32_MASK ELSE buf[i]]

\* the row loop of dirty_mark_rect, one word per row (left_ptr == right_ptr)
RECURSIVE MarkRowsOne(_, _, _, _, _, _)
MarkRowsOne(buf, y, y2, left_ptr, left_word, pitch) ==
    IF y > y2 THEN buf
    ELSE MarkRowsOne(OrWord(buf, left_ptr, left_word), y + 1, y2,
                     left_ptr + pitch, left_word, pitch)

\* the row loop of dirty_mark_rect, several words per row
RECURSIVE MarkRowsMany(_, _, _, _, _, _, _, _)
MarkRowsMany(buf, y, y2, left_ptr, right_ptr, left_word, right_word, pitch) ==
    IF y > y2 THEN buf
    ELSE MarkRowsMany(
            OrWord(FillMid(OrWord(buf, left_ptr, left_word), left_ptr, right_ptr),
                   right_ptr, right_word),
            y + 1, y2, left_ptr + pitch, right_ptr + pitch,
            left_word, right_word, pitch)

\* a plausible slip: the rectangle is not clamped to the display
MarkClip_noclamp(b, rect) ==
    Rect(CDiv(max_int(0, rect.x1), b.tile_width),
         CDiv(max_int(0, rect.y1), b.tile_height),
         CDiv(max_int(0, rect.x2) + b.tile_width - 1, b.tile_width),
         CDiv(max_int(0, rect.y2) + b.tile_height - 1, b.tile_height))

\* a plausible slip: the last tile column/row is rounded down instead of up
MarkClip_floor(b, rect) ==
    Rect(CDiv(max_int(0, rect.x1), b.tile_width),
         CDiv(max_int(0, rect.y1), b.tile_height),
         CDiv(min_int(b.disp_width, rect.x2), b.tile_width),
         CDiv(min_int(b.disp_height, rect.y2), b.tile_height))

\* the rectangle clamped to the display and converted to tile coordinates
MarkClip(b, rect) ==
    Rect(CDiv(max_int(0, rect.x1), b.tile_width),
         CDiv(max_int(0, rect.y1), b.tile_height),
         CDiv(min_int(b.disp_width, rect.x2) + b.tile_width - 1, b.tile_width),
         CDiv(min_int(b.disp_height, rect.y2) + b.tile_height - 1, b.tile_height))

MarkBuffer(b, clip) ==
    IF rect_empty(clip) THEN b.dirty_buffer
    ELSE
        LET x2 == clip.x2 - 1
            y2 == clip.y2 - 1
            left_word == MaskShr(clip.x1 % BAM__UINT32_N_BITS)
            left_ptr == clip.y1 * b.dirty_buffer_pitch + (clip.x1 \div BAM__UINT32_N_BITS)
            right_word == MaskShl(BAM__UINT32_N_BITS - 1 - (x2 % BAM__UINT32_N_BITS))
            right_ptr == clip.y1 * b.dirty_buffer_pitch + (x2 \div BAM__UINT32_N_BITS)
        IN  IF left_ptr = right_ptr
            THEN MarkRowsOne(b.dirty_buffer, clip.y1, y2, left_ptr,
                             left_word \cap right_word, b.dirty_buffer_pitch)
            ELSE MarkRowsMany(b.dirty_buffer, clip.y1, y2, left_ptr, right_ptr,
                              left_word, right_word, b.dirty_buffer_pitch)

dirty_mark_rect(b, rect) ==
    [b EXCEPT !.dirty_buffer = MarkBuffer(b, MarkClip(b, rect))]

dirty_mark_all(b) ==
    dirty_mark_rect(b, rect_init(0, 0, b.disp_width, b.disp_height))


\* ------------------------------------------------------------------ text

\* the memory a text pointer points to: the bytes, the terminating NUL and the
\* three bytes that follow it (whatever the program left there)
StrMem(bytes, after) == bytes \o <<0>> \o <<after, after, after>>

RECURSIVE StrLenFrom(_, _)
StrLenFrom(mem, i) == IF mem[i] = 0 THEN 0 ELSE 1 + StrLenFrom(mem, i + 1)

\* strlen(text)
strlen(mem) == StrLenFrom(mem, 1)

\* strcmp(a, b) != 0
strcmp(a, b) ==
    IF SubSeq(a, 1, strlen(a)) = SubSeq(b, 1, strlen(b)) THEN 0 ELSE 1

LENGTH_LUT ==
    << 1, 1, 1, 1, 1, 1, 1, 1,
       1, 1, 1, 1, 1, 1, 1, 1,
       0, 0, 0, 0, 0, 0, 0, 0,
       2, 2, 2, 2, 3, 3, 4, 0 >>

\* MASK_LUT as the modulus of the AND: x & 0x7f = x % 128, x & 0x00 = x % 1
MASK_LUT == << 1, 128, 32, 16, 8 >>

\* SHIFT_C_LUT as the divisor of the right shift: x >> 18 = x \div 2^18
SHIFT_C_LUT == << 1, 262144, 4096, 64, 1 >>

\* unicode_decode_utf8 at byte index i of mem: the code point and the next index
unicode_decode_utf8(mem, i) ==
    LET len == LENGTH_LUT[(mem[i] \div 8) + 1]
        bits == (mem[i] % MASK_LUT[len + 1]) * 262144
                    + (mem[i + 1] % 64) * 4096
                    + (mem[i + 2] % 64) * 64
                    + (mem[i + 3] % 64)
    IN  [unichar |-> bits \div SHIFT_C_LUT[len + 1],
         next |-> i + len + (IF len = 0 THEN 1 ELSE 0)]

\* ------------------------------------------------------------------ host and application data

\* bam_panic_code_t
BAM_PANIC_CODE_DIRTY_BUFFER_TOO_SMALL == 1
BAM_PANIC_CODE_OUT_OF_MEMORY == 2

BAM_STATE_DISABLED == 0
BAM_STATE_ENABLED == 1
BAM_STATE_PRESSED == 2

\* the styles of the application (style pointers are their names)
StyleOf(style) ==
    IF style = "default"
    THEN [font |-> "font", h_align |-> "LEFT", v_align |-> "TOP",
          h_padding |-> 0, v_padding |-> 0,
          colors |-> << [foreground |-> "fg0", background |-> "bg0"],
                        [foreground |-> "fg1", background |-> "bg1"],
                        [foreground |-> "fg2", background |-> "bg2"] >>]
    ELSE [font |-> "font", h_align |-> "CENTER", v_align |-> "MIDDLE",
          h_padding |-> -1, v_padding |-> 0,
          colors |-> << [foreground |-> "FG0", background |-> "BG0"],
                        [foreground |-> "FG1", background |-> "BG1"],
                        [foreground |-> "FG2", background |-> "BG2"] >>]

\* host get_font_metrics
get_font_metrics(font) == [ascent |-> 1, descent |-> 0, center |-> 0, line_height |-> 1]

\* host get_glyph_metrics: the font has a 1x2 glyph for 'A' (65) and no other
get_glyph_metrics(font, codepoint) ==
    [present |-> codepoint = 65, codepoint |-> codepoint,
     width |-> 1, height |-> 2, x_bearing |-> 0, y_bearing |-> 1, x_advance |-> 1]

\* ------------------------------------------------------------------ drawing

\* a host call issued while widget (a handle, NULL for the tile itself) is drawn
HostFill(dest, color, widget) ==
    [fn |-> "draw_fill", dest |-> dest, src |-> rect_init_empty, color |-> color,
     x |-> 0, y |-> 0, widget |-> widget]

HostGlyph(dest, src, metrics, colors, widget) ==
    [fn |-> "draw_glyph", dest |-> dest, src |-> src, color |-> colors.foreground,
     x |-> metrics.codepoint, y |-> 0, widget |-> widget]

HostBlt(x, y) ==
    [fn |-> "blt_tile", dest |-> rect_init_empty, src |-> rect_init_empty, color |-> "",
     x |-> x, y |-> y, widget |-> NULL]

RECURSIVE StringWidthFrom(_, _, _, _, _)
StringWidthFrom(mem, text_i, text_e, font, cursor_x) ==
    IF text_i < text_e
    THEN LET d == unicode_decode_utf8(mem, text_i)
             glyph_metrics == get_glyph_metrics(font, d.unichar)
         IN  StringWidthFrom(mem, d.next, text_e, font,
                 IF glyph_metrics.present
                 THEN Int16(cursor_x + glyph_metrics.x_advance) ELSE cursor_x)
    ELSE cursor_x

metrics_calc_string_width(mem, text_start, text_end, font) ==
    StringWidthFrom(mem, text_start, text_end, font, 0)

draw_set_translation(ds, x, y) == [ds EXCEPT !.translate_x = x, !.translate_y = y]

draw_set_clip(ds, rect) ==
    [ds EXCEPT !.clip =
        rect_intersect(ds.clip, rect_translate(rect, ds.translate_x, ds.translate_y))]

\* a plausible slip: the box of the glyph is not cut to the clip
draw_glyph_uncut(ds, x0, y0, metrics, colors, widget) ==
    LET x == Int16(x0 + ds.translate_x + metrics.x_bearing)
        y == Int16(y0 + ds.translate_y - metrics.y_bearing)
        dest_rect == rect_init(x, y, metrics.width, metrics.height)
        src_rect == rect_init(Int16(dest_rect.x1 - x), Int16(dest_rect.y1 - y),
                              rect_width(dest_rect), rect_height(dest_rect))
    IN  IF ~rect_empty(dest_rect) /\ ~rect_empty(src_rect)
        THEN << HostGlyph(dest_rect, src_rect, metrics, colors, widget) >>
        ELSE << >>

draw_glyph(ds, x0, y0, metrics, colors, widget) ==
    LET x == Int16(x0 + ds.translate_x + metrics.x_bearing)
        y == Int16(y0 + ds.translate_y - metrics.y_bearing)
        dest_rect == rect_intersect(rect_init(x, y, metrics.width, metrics.height), ds.clip)
        src_rect == rect_init(Int16(dest_rect.x1 - x), Int16(dest_rect.y1 - y),
                              rect_width(dest_rect), rect_height(dest_rect))
    IN  IF ~rect_empty(dest_rect) /\ ~rect_empty(src_rect)
        THEN << HostGlyph(dest_rect, src_rect, metrics, colors, widget) >>
        ELSE << >>

\* the glyph loop of draw_text
RECURSIVE DrawTextFrom(_, _, _, _, _, _, _, _)
DrawTextFrom(ds, x, y, mem, text_i, text_e, style, widget) ==
    IF text_i < text_e
    THEN LET d == unicode_decode_utf8(mem, text_i)
             glyph_metrics == get_glyph_metrics(style.font, d.unichar)
         IN  IF glyph_metrics.present
             THEN draw_glyph(ds, x, y, glyph_metrics, style.colors[widget.state + 1], widget.handle)
                  \o DrawTextFrom(ds, Int16(x + glyph_metrics.x_advance), y, mem, d.next,
                                  text_e, style, widget)
             ELSE DrawTextFrom(ds, x, y, mem, d.next, text_e, style, widget)
    ELSE << >>

\* draw_text; widget carries the state (for the colours) and the handle
draw_text(ds, x0, y0, mem, style, widget) ==
    LET font_metrics == get_font_metrics(style.font)
        text_e == 1 + strlen(mem)
        width == metrics_calc_string_width(mem, 1, text_e, style.font)
        x == CASE style.h_align = "CENTER" -> Int16(x0 - CDiv(width, 2))
               [] style.h_align = "RIGHT" -> Int16(x0 - width)
               [] OTHER -> x0
        y == CASE style.v_align = "TOP" -> Int16(y0 + font_metrics.ascent)
               [] style.v_align = "MIDDLE" -> Int16(y0 + font_metrics.center)
               [] style.v_align = "BOTTOM" -> Int16(y0 - font_metrics.descent)
               [] OTHER -> y0
    IN  DrawTextFrom(ds, x, y, mem, 1, text_e, style, widget)

draw_fill(ds, rect, color, widget) ==
    LET copy == rect_intersect(rect_translate(rect, ds.translate_x, ds.translate_y), ds.clip)
    IN  IF ~rect_empty(copy) THEN << HostFill(copy, color, widget) >> ELSE << >>

\* a plausible slip: the test for an empty bounding rectangle is missing
draw_widget_nocheck(ds, w, handle) ==
    LET style == StyleOf(w.style)
        colors == style.colors[w.state + 1]
        inner == Rect(w.rect.x1 + style.h_padding, w.rect.y1 + style.v_padding,
                      w.rect.x2 - style.h_padding, w.rect.y2 - style.v_padding)
        text_x == CASE style.h_align = "CENTER" -> CDiv(inner.x1 + inner.x2, 2)
                    [] style.h_align = "RIGHT" -> inner.x2 - 1
                    [] OTHER -> inner.x1
        text_y == CASE style.v_align = "MIDDLE" -> CDiv(inner.y1 + inner.y2, 2)
                    [] style.v_align = "BOTTOM" -> inner.y2 - 1
                    [] OTHER -> inner.y1
    IN  draw_fill(ds, w.rect, colors.background, handle)
        \o (IF ~rect_empty(inner) /\ w.text[1] # 0
            THEN draw_text(draw_set_clip(ds, inner), text_x, text_y, w.text, style,
                           [state |-> w.state, handle |-> handle])
            ELSE << >>)

\* draw_widget: the host calls it issues (the draw state is restored on exit)
draw_widget(ds, w, handle) ==
    IF rect_empty(w.rect) THEN << >> ELSE draw_widget_nocheck(ds, w, handle)

\* a plausible slip: the draw state is not restored when a widget has been drawn
RECURSIVE DrawWidgetsFrom_leak(_, _, _, _)
DrawWidgetsFrom_leak(ds, widgets, i, rect) ==
    IF i > Len(widgets) THEN << >>
    ELSE IF rect_overlaps(rect, widgets[i].rect)
         THEN draw_widget(ds, widgets[i], i - 1)
              \o DrawWidgetsFrom_leak(draw_set_clip(ds, widgets[i].rect), widgets, i + 1, rect)
         ELSE DrawWidgetsFrom_leak(ds, widgets, i + 1, rect)

\* the widget loop of dirty_clean for the tile at rect
RECURSIVE DrawWidgetsFrom(_, _, _, _)
DrawWidgetsFrom(ds, widgets, i, rect) ==
    IF i > Len(widgets) THEN << >>
    ELSE (IF rect_overlaps(rect, widgets[i].rect)
          THEN draw_widget(ds, widgets[i], i - 1) ELSE << >>)
         \o DrawWidgetsFrom(ds, widgets, i + 1, rect)

\* the body of the `while (word)` loop of dirty_clean for the bits of word
RECURSIVE CleanWord(_, _, _, _)
CleanWord(b, word, word_x, offset_y) ==
    IF word = {} THEN << >>
    ELSE LET clz == Clz(word)
             offset_x == word_x + clz * b.tile_width
             rect0 == rect_init(0, 0, b.tile_width, b.tile_height)
             rect == rect_set_pos(rect0, offset_x, offset_y)
             ds == draw_set_clip(draw_set_translation(b.draw_state, -offset_x, -offset_y), rect)
         IN  << HostFill(rect0, b.background_color, NULL) >>
             \o DrawWidgetsFrom(ds, b.widgets, 1, rect)
             \o << HostBlt(offset_x, offset_y) >>
             \o CleanWord(b, word \ {BAM__UINT32_N_BITS - 1 - clz}, word_x, offset_y)

\* a plausible slip: the next word of a row starts 32 pixels on, not 32 tiles
RECURSIVE CleanFrom_pixels(_, _, _, _, _)
CleanFrom_pixels(b, dirty_i, dirty_m, word_x, offset_y) ==
    LET calls == CleanWord(b, b.dirty_buffer[dirty_i], word_x, offset_y)
        next_row == dirty_i + 1 >= dirty_m
    IN  IF dirty_i + 1 < Cardinality(DOMAIN b.dirty_buffer)
        THEN calls \o CleanFrom_pixels(b, dirty_i + 1,
                        IF next_row THEN dirty_m + b.dirty_buffer_pitch ELSE dirty_m,
                        IF next_row THEN 0 ELSE word_x + 32,
                        IF next_row THEN offset_y + b.tile_height ELSE offset_y)
        ELSE calls

\* the do-while loop of dirty_clean from word dirty_i on: the host calls issued
RECURSIVE CleanFrom(_, _, _, _, _)
CleanFrom(b, dirty_i, dirty_m, word_x, offset_y) ==
    LET calls == CleanWord(b, b.dirty_buffer[dirty_i], word_x, offset_y)
        next_row == dirty_i + 1 >= dirty_m
    IN  IF dirty_i + 1 < Cardinality(DOMAIN b.dirty_buffer)
        THEN calls \o CleanFrom(b, dirty_i + 1,
                        IF next_row THEN dirty_m + b.dirty_buffer_pitch ELSE dirty_m,
                        IF next_row THEN 0 ELSE word_x + 32 * b.tile_width,
                        IF next_row THEN offset_y + b.tile_height ELSE offset_y)
        ELSE calls

\* the host calls of one dirty_clean pass
CleanCalls(b) == CleanFrom(b, 0, b.dirty_buffer_pitch, 0, 0)

\* dirty_clean: every word read is set to zero
dirty_clean(b) == [b EXCEPT !.dirty_buffer = [i \in DOMAIN b.dirty_buffer |-> {}]]

\* ------------------------------------------------------------------ context

\* bam_init, lines 1566-1599: the context when the size of the dirty buffer is
\* checked.  dirty_buffer is the buffer handed in (dirty_buffer_size its length, its
\* content untouched), widget_buffer_size the capacity of the widget pool.
InitFields(dirty_buffer, widget_buffer_size, disp_width, disp_height, tile_width, tile_height) ==
    [dirty_buffer       |-> dirty_buffer,
     dirty_buffer_pitch |-> BAM__TILE_PITCH(BAM__TILE_COUNT(disp_width, tile_width)),
     widgets            |-> <<>>,
     widget_buffer_size |-> widget_buffer_size,
     disp_width         |-> disp_width,
     disp_height        |-> disp_height,
     tile_width         |-> tile_width,
     tile_height        |-> tile_height,
     draw_state         |-> [translate_x |-> 0, translate_y |-> 0,
                             clip |-> Rect(0, 0, disp_width, disp_height)],
     background_color   |-> "background",
     default_style      |-> "default",
     quit_flag          |-> FALSE,
     run_flag           |-> NULL,
     run_result         |-> 0,
     pressed_widget     |-> NULL]

\* a plausible slip: the tiles are counted as if packed without padding of the rows
DirtyBufferTooSmall_packed(dirty_buffer_size, disp_width, disp_height, tile_width, tile_height) ==
    dirty_buffer_size <
        BAM__TILE_PITCH(BAM__TILE_COUNT(disp_width, tile_width)
                            * BAM__TILE_COUNT(disp_height, tile_height))

\* bam_init, line 1602: the check of the dirty buffer size
DirtyBufferTooSmall(dirty_buffer_size, disp_width, disp_height, tile_width, tile_height) ==
    dirty_buffer_size < BAM_DIRTY_BUFFER_SIZE(disp_width, disp_height, tile_width, tile_height)

\* bam_init: the context after a successful initialisation (the prior content of
\* the dirty buffer is kept: init only marks)
bam_init(dirty_buffer, widget_buffer_size, disp_width, disp_height, tile_width, tile_height) ==
    dirty_mark_all(InitFields(dirty_buffer, widget_buffer_size, disp_width, disp_height,
                              tile_width, tile_height))

\* a buffer of n words, every word equal to word
ConstBuffer(n, word) == [i \in 0 .. (n - 1) |-> word]

\* ------------------------------------------------------------------ widget API

\* the handles of the widgets in the pool
Handles(b) == 0 .. (Len(b.widgets) - 1)

widget_from_handle(b, handle) == b.widgets[handle + 1]

widget_get_style(b, style) == IF style = "NULL" THEN b.default_style ELSE style

widget_make_dirty(b, handle) == dirty_mark_rect(b, widget_from_handle(b, handle).rect)

\* a plausible slip: the new widget's area is not marked dirty (the metadata member
\* is not initialised by bam_add_widget: NULL stands for what the pool memory held,
\* which no code modelled here reads before bam_set_widget_metadata wrote it)
bam_add_widget_nomark(b, x, y, width, height, style, text, enabled) ==
    [b EXCEPT !.widgets = Append(@,
        [style     |-> IF style = "NULL" THEN b.default_style ELSE style,
         text      |-> IF text = "NULL" THEN StrMem(<<>>, 0) ELSE text,
         state     |-> IF enabled THEN BAM_STATE_ENABLED ELSE BAM_STATE_DISABLED,
         callback  |-> "NULL",
         user_data |-> NULL,
         metadata  |-> NULL,
         rect      |-> rect_init(x, y, width, height)])]

\* a plausible slip: the new widget is put at the begin of the pool, the others move up
bam_add_widget_front(b, x, y, width, height, style, text, enabled) ==
    LET a == bam_add_widget_nomark(b, x, y, width, height, style, text, enabled)
    IN  dirty_mark_rect([a EXCEPT !.widgets = << a.widgets[Len(a.widgets)] >> \o b.widgets],
                        rect_init(x, y, width, height))

\* bam_add_widget when the pool is not full; the handle returned is Len(b.widgets)
bam_add_widget(b, x, y, width, height, style, text, enabled) ==
    widget_make_dirty(bam_add_widget_nomark(b, x, y, width, height, style, text, enabled),
                      Len(b.widgets))

\* a plausible slip: the pressed-widget pointer is left dangling
bam_delete_widgets_keep_pressed(b) == dirty_mark_all([b EXCEPT !.widgets = << >>])

bam_delete_widgets(b) ==
    dirty_mark_all([b EXCEPT !.pressed_widget = NULL, !.widgets = << >>])

bam_force_widget_redraw(b, widget) == widget_make_dirty(b, widget)

bam_set_widget_callback(b, widget, callback, user_data) ==
    [b EXCEPT !.widgets[widget + 1].callback = callback,
              !.widgets[widget + 1].user_data = user_data]

\* a plausible slip: the area the widget leaves is not marked dirty
bam_set_widget_bounds_new_only(b, widget, bounds) ==
    widget_make_dirty([b EXCEPT !.widgets[widget + 1].rect = bounds], widget)

bam_set_widget_bounds(b, widget, bounds) ==
    widget_make_dirty(
        [widget_make_dirty(b, widget) EXCEPT !.widgets[widget + 1].rect = bounds],
        widget)

bam_set_widget_style(b, widget, style) ==
    LET new_style == widget_get_style(b, style)
    IN  IF widget_from_handle(b, widget).style # new_style
        THEN widget_make_dirty([b EXCEPT !.widgets[widget + 1].style = new_style], widget)
        ELSE b

bam_set_widget_text(b, widget, text0) ==
    LET text == IF text0 = "NULL" THEN StrMem(<<>>, 0) ELSE text0
    IN  IF strcmp(widget_from_handle(b, widget).text, text) # 0
        THEN widget_make_dirty([b EXCEPT !.widgets[widget + 1].text = text], widget)
        ELSE b

bam_set_widget_enabled(b, widget, enabled) ==
    LET new_state == IF enabled THEN BAM_STATE_ENABLED ELSE BAM_STATE_DISABLED
    IN  IF widget_from_handle(b, widget).state # new_state
        THEN widget_make_dirty([b EXCEPT !.widgets[widget + 1].state = new_state], widget)
        ELSE b

bam_get_widget_enabled(b, widget) ==
    widget_from_handle(b, widget).state = BAM_STATE_ENABLED

bam_set_widget_metadata(b, widget, metadata) ==
    [b EXCEPT !.widgets[widget + 1].metadata = metadata]

bam_get_widget_metadata(b, widget) == widget_from_handle(b, widget).metadata

\* a plausible slip: the pool is scanned from its begin, so the bottom widget wins
FindAtPointFrom_bottom_up(b, x, y, widget_i) ==
    LET found == { w \in 0 .. (widget_i - 1) :
                      rect_contains_point(widget_from_handle(b, w).rect, x, y) }
    IN  IF found = {} THEN NULL ELSE CHOOSE w \in found : \A v \in found : w <= v

\* the loop of widget_find_at_point, widget_i being the pointer before decrement
RECURSIVE FindAtPointFrom(_, _, _, _)
FindAtPointFrom(b, x, y, widget_i) ==
    IF widget_i = 0 THEN NULL
    ELSE IF rect_contains_point(widget_from_handle(b, widget_i - 1).rect, x, y)
         THEN widget_i - 1
         ELSE FindAtPointFrom(b, x, y, widget_i - 1)

widget_find_at_point(b, x, y) == FindAtPointFrom(b, x, y, Len(b.widgets))

\* a plausible slip: the previously pressed widget is not returned to Enabled
widget_set_pressed_keep(b, widget) ==
    LET b2 == [b EXCEPT !.pressed_widget = widget]
    IN  IF widget # NULL
        THEN widget_make_dirty([b2 EXCEPT !.widgets[widget + 1].state = BAM_STATE_PRESSED],
                               widget)
        ELSE b2

widget_set_pressed(b, widget) ==
    LET b1 == IF b.pressed_widget # NULL
              THEN widget_make_dirty(
                      [b EXCEPT !.widgets[b.pressed_widget + 1].state = BAM_STATE_ENABLED],
                      b.pressed_widget)
              ELSE b
    IN  widget_set_pressed_keep(b1, widget)

\* ------------------------------------------------------------------ event API

\* The run flag of a bam_start invocation is a local of its stack frame, and
\* bam.run_flag its address: the index of that frame in stack.  The event API
\* therefore acts on the machine m = [bam, stack].
Machine(b, stk) == [bam |-> b, stack |-> stk]

\* a plausible slip: the result is not recorded
bam_stop_noresult(m, result) ==
    IF m.bam.run_flag # NULL
    THEN [m EXCEPT !.stack[m.bam.run_flag].run_flag = FALSE]
    ELSE m

\* a plausible slip: the result is recorded even when no loop is running
bam_stop_unguarded(m, result) ==
    IF m.bam.run_flag # NULL
    THEN [m EXCEPT !.bam.run_result = result,
                   !.stack[m.bam.run_flag].run_flag = FALSE]
    ELSE [m EXCEPT !.bam.run_result = result]

\* a plausible slip: stop also raises the quit flag
bam_stop_quits(m, result) ==
    IF m.bam.run_flag # NULL
    THEN [m EXCEPT !.bam.run_result = result, !.bam.quit_flag = TRUE,
                   !.stack[m.bam.run_flag].run_flag = FALSE]
    ELSE m

bam_stop(m, result) ==
    IF m.bam.run_flag # NULL
    THEN [m EXCEPT !.bam.run_result = result,
                   !.stack[m.bam.run_flag].run_flag = FALSE]
    ELSE m

\* a plausible slip: quit only stops the current loop
bam_quit_noflag(m, result) == bam_stop(m, result)

bam_quit(m, result) == [bam_stop(m, result) EXCEPT !.bam.quit_flag = TRUE]

\* ------------------------------------------------------------------ tiles (observation)

TileCols(b) == BAM__TILE_COUNT(b.disp_width, b.tile_width)

TileRows(b) == BAM__TILE_COUNT(b.disp_height, b.tile_height)

\* the tile a bit of the buffer stands for: <<column, row>>
TileOfBit(b, i, bit) ==
    << (i % b.dirty_buffer_pitch) * BAM__UINT32_N_BITS + (BAM__UINT32_N_BITS - 1 - bit),
       i \div b.dirty_buffer_pitch >>

\* tile t = <<column, row>> is a tile of the display
IsDisplayTile(b, t) ==
    0 <= t[1] /\ t[1] < TileCols(b) /\ 0 <= t[2] /\ t[2] < TileRows(b)

DisplayTiles(b) == (0 .. (TileCols(b) - 1)) \X (0 .. (TileRows(b) - 1))

\* the bit of display tile t is set in buf (row-major words of pitch words per
\* row, the most significant bit of a word being its smallest column)
TileSet(b, buf, t) ==
    (BAM__UINT32_N_BITS - 1 - (t[1] % BAM__UINT32_N_BITS))
        \in buf[t[2] * b.dirty_buffer_pitch + (t[1] \div BAM__UINT32_N_BITS)]

\* the display tiles whose bit is set in the dirty buffer
DirtyTiles(b) == { t \in DisplayTiles(b) : TileSet(b, b.dirty_buffer, t) }

\* some bit of buf that is not set in old stands for no tile of the display
SetsBitOutsideDisplay(b, old, buf) ==
    \E i \in DOMAIN buf : \E bit \in buf[i] \ old[i] : ~IsDisplayTile(b, TileOfBit(b, i, bit))

\* the pixels of tile t, as a rectangle in display coordinates
TileRect(b, t) ==
    rect_init(t[1] * b.tile_width, t[2] * b.tile_height, b.tile_width, b.tile_height)

SetMin(S) == CHOOSE m \in S : \A n \in S : m <= n

\* three half-open rectangles have a pixel in common: on each axis some coordinate
\* lies in all three intervals (stated on the intervals, not with the code's operators)
HaveCommonPixel(r, s, t) ==
    /\ SetMax({r.x1, s.x1, t.x1}) < SetMin({r.x2, s.x2, t.x2})
    /\ SetMax({r.y1, s.y1, t.y1}) < SetMin({r.y2, s.y2, t.y2})

DisplayRect(b) == Rect(0, 0, b.disp_width, b.disp_height)

\* the area covered by the display tiles (the display rounded up to whole tiles)
GridRect(b) == Rect(0, 0, TileCols(b) * b.tile_width, TileRows(b) * b.tile_height)

\* the display tiles that overlap rect /\ display
TilesOverlapping(b, rect) ==
    { t \in DisplayTiles(b) : HaveCommonPixel(TileRect(b, t), rect, DisplayRect(b)) }

\* the display tiles that overlap rect /\ tile grid
TilesOverlappingGrid(b, rect) ==
    { t \in DisplayTiles(b) : HaveCommonPixel(TileRect(b, t), rect, GridRect(b)) }

\* ------------------------------------------------------------------ the program

\* the last step that ran: its name, the widget, point and result it was given,
\* and for a bam_start return the frame that returned
Op(name, widget, x, y, r, frame) ==
    [name |-> name, widget |-> widget, x |-> x, y |-> y, r |-> r, frame |-> frame]

\* a frame of a widget callback running application code
CbFrame(widget, user_data) ==
    [kind |-> "cb", pc |-> "body", run_flag |-> FALSE, saved_run_flag |-> NULL,
     need_clean |-> FALSE, widget |-> widget, user_data |-> user_data,
     by |-> "none", stop_r |-> NULL, clobbered |-> FALSE, quit_seen |-> FALSE, last_r |-> NULL]

\* the frame of bam_start on entry (lines 807-820).  History fields: by and stop_r
\* are the call ("stop" or "quit") and the result of the last bam_stop/bam_quit that
\* acted on this frame's run flag, clobbered tells that a later one acted on the run
\* flag of another frame, quit_seen that bam_quit ran while this frame was on the
\* stack, last_r is the result of the last bam_stop/bam_quit that acted on any run
\* flag while this frame was on the stack.
LoopFrame(saved_run_flag) ==
    [kind |-> "loop", pc |-> "top", run_flag |-> TRUE, saved_run_flag |-> saved_run_flag,
     need_clean |-> TRUE, widget |-> NULL, user_data |-> NULL,
     by |-> "none", stop_r |-> NULL, clobbered |-> FALSE, quit_seen |-> FALSE, last_r |-> NULL]

NoFrame == CbFrame(NULL, NULL)

NoOp == Op("none", NULL, 0, 0, 0, NoFrame)

\* the frame that runs: the top of the stack, main when the stack is empty
MainFrame == [NoFrame EXCEPT !.kind = "main"]

Top == IF stack = << >> THEN MainFrame ELSE stack[Len(stack)]

\* the indices of the bam_start frames of a stack
LoopsOf(stk) == { i \in DOMAIN stk : stk[i].kind = "loop" }

Halted == op.name = "panic"

\* application code runs: main before/after its loops, or a widget callback
AppRunning == ~Halted /\ Top.kind \in {"main", "cb"}

\* the history fields after bam_stop/bam_quit(result) acted on frame `active`;
\* history tells whether the specification keeps them (bam_stop outside a loop acts
\* on no frame)
NoteStop(stk, active, result, quit, history) ==
    [i \in DOMAIN stk |->
        IF stk[i].kind # "loop" \/ ~history \/ active = NULL THEN stk[i]
        ELSE [stk[i] EXCEPT
                !.by = IF i = active THEN (IF quit THEN "quit" ELSE "stop") ELSE @,
                !.stop_r = IF i = active THEN result ELSE @,
                !.clobbered = IF i = active THEN FALSE ELSE (@ \/ stk[i].by # "none"),
                !.quit_seen = @ \/ quit,
                !.last_r = result]]

\* a plausible slip: every bam_start clears the quit flag
Start_clears(max_depth) ==
    /\ AppRunning
    /\ Cardinality(LoopsOf(stack)) < max_depth
    /\ bam' = [bam EXCEPT !.quit_flag = FALSE, !.run_flag = Len(stack) + 1]
    /\ stack' = Append(stack, LoopFrame(bam.run_flag))
    /\ op' = Op("start", NULL, 0, 0, 0, NoFrame)
    /\ host_log' = << >>
    /\ UNCHANGED <<fn_in, fn_out, fn_pc>>

\* bam_start, entry: lines 807-820
Start(max_depth) ==
    /\ AppRunning
    /\ Cardinality(LoopsOf(stack)) < max_depth
    /\ bam' = [bam EXCEPT !.quit_flag = IF bam.run_flag = NULL THEN FALSE ELSE @,
                          !.run_flag = Len(stack) + 1]
    /\ stack' = Append(stack, LoopFrame(bam.run_flag))
    /\ op' = Op("start", NULL, 0, 0, 0, NoFrame)
    /\ host_log' = << >>
    /\ UNCHANGED <<fn_in, fn_out, fn_pc>>

\* bam_start, lines 828-838: the clean pass of an iteration, up to the call of get_event
LoopClean ==
    /\ ~Halted /\ Top.kind = "loop" /\ Top.pc = "top"
    /\ bam' = IF Top.need_clean THEN dirty_clean(bam) ELSE bam
    /\ host_log' = IF Top.need_clean THEN CleanCalls(bam) ELSE << >>
    /\ stack' = [stack EXCEPT ![Len(stack)].need_clean = FALSE, ![Len(stack)].pc = "wait"]
    /\ op' = Op(IF Top.need_clean THEN "clean" ELSE "noclean", NULL, 0, 0, 0, NoFrame)
    /\ UNCHANGED <<fn_in, fn_out, fn_pc>>

\* a plausible slip: a press takes any widget found, whatever its state
Pressable_any(b, widget) == widget # NULL

\* bam_start, line 854: the widget found at a press can be pressed
Pressable(b, widget) ==
    widget # NULL /\ widget_from_handle(b, widget).state = BAM_STATE_ENABLED

\* a plausible slip: a release triggers the widget found, pressed or not
Triggered_found(b, x, y) == widget_find_at_point(b, x, y)

\* bam_start, lines 862-870: the widget a release at (x, y) triggers
Triggered(b, x, y) ==
    IF b.pressed_widget # NULL /\ widget_find_at_point(b, x, y) = b.pressed_widget
    THEN widget_find_at_point(b, x, y)
    ELSE NULL

\* a plausible slip: a press that changes a widget does not ask for a clean pass
Dispatch_press_unclean(m, event) ==
    LET b == m.bam
        widget == widget_find_at_point(b, event.x, event.y)
    IN  CASE event.type = "QUIT" ->
                [m |-> bam_quit(m, 0), triggered |-> NULL]
          [] event.type = "PRESS" ->
                IF Pressable(b, widget)
                THEN [m |-> [m EXCEPT
                                !.bam = widget_set_pressed(b, widget_find_at_point(b, event.x, event.y))],
                      triggered |-> NULL]
                ELSE [m |-> m, triggered |-> NULL]
          [] event.type = "RELEASE" ->
                [m |-> [m EXCEPT !.bam = widget_set_pressed(b, NULL),
                                 !.stack[Len(m.stack)].need_clean = TRUE],
                 triggered |-> Triggered(b, event.x, event.y)]
          [] OTHER -> [m |-> m, triggered |-> NULL]

\* the machine after the event switch of bam_start (lines 841-880), and the
\* widget triggered
Dispatch(m, event) ==
    LET b == m.bam
        widget == widget_find_at_point(b, event.x, event.y)
    IN  CASE event.type = "QUIT" ->
                [m |-> bam_quit(m, 0), triggered |-> NULL]
          [] event.type = "PRESS" ->
                IF Pressable(b, widget)
                THEN [m |-> [m EXCEPT
                                !.bam = widget_set_pressed(b, widget_find_at_point(b, event.x, event.y)),
                                !.stack[Len(m.stack)].need_clean = TRUE],
                      triggered |-> NULL]
                ELSE [m |-> m, triggered |-> NULL]
          [] event.type = "RELEASE" ->
                [m |-> [m EXCEPT !.bam = widget_set_pressed(b, NULL),
                                 !.stack[Len(m.stack)].need_clean = TRUE],
                 triggered |-> Triggered(b, event.x, event.y)]
          [] OTHER -> [m |-> m, triggered |-> NULL]

\* bam_start, lines 841-885: get_event returns `event` (type NONE: a timeout), the
\* event is decoded and the callback of the triggered widget is entered
LoopEvent(event, history) ==
    /\ ~Halted /\ Top.kind = "loop" /\ Top.pc = "wait"
    /\ LET d == Dispatch(Machine(bam, stack), event)
           stk == IF event.type = "QUIT"
                  THEN NoteStop(d.m.stack, bam.run_flag, 0, TRUE, history) ELSE d.m.stack
           checked == [stk EXCEPT ![Len(stk)].pc = "check"]
       IN  /\ bam' = d.m.bam
           /\ stack' =
                IF d.triggered # NULL /\ widget_from_handle(d.m.bam, d.triggered).callback # "NULL"
                THEN Append(checked,
                            CbFrame(d.triggered, widget_from_handle(d.m.bam, d.triggered).user_data))
                ELSE checked
           /\ op' = Op(event.type, d.triggered, event.x, event.y, 0, NoFrame)
    /\ host_log' = << >>
    /\ UNCHANGED <<fn_in, fn_out, fn_pc>>

\* bam_start, lines 886-892: the loop condition, and the return when it fails
LoopCheck ==
    /\ ~Halted /\ Top.kind = "loop" /\ Top.pc = "check"
    /\ IF Top.run_flag /\ ~bam.quit_flag
       THEN /\ stack' = [stack EXCEPT ![Len(stack)].pc = "top"]
            /\ op' = Op("continue", NULL, 0, 0, 0, NoFrame)
            /\ bam' = bam
       ELSE /\ bam' = [bam EXCEPT !.run_flag = Top.saved_run_flag]
            /\ stack' = SubSeq(stack, 1, Len(stack) - 1)
            /\ op' = Op("return", NULL, 0, 0, bam.run_result, Top)
    /\ host_log' = << >>
    /\ UNCHANGED <<fn_in, fn_out, fn_pc>>

\* the widget callback returns to bam_start
CbReturn ==
    /\ ~Halted /\ Top.kind = "cb"
    /\ stack' = SubSeq(stack, 1, Len(stack) - 1)
    /\ op' = Op("cb_return", NULL, 0, 0, 0, NoFrame)
    /\ host_log' = << >>
    /\ UNCHANGED <<bam, fn_in, fn_out, fn_pc>>

\* the application calls bam_stop(result)
Stop(result, history) ==
    /\ AppRunning
    /\ LET m == bam_stop(Machine(bam, stack), result)
       IN  /\ bam' = m.bam
           /\ stack' = NoteStop(m.stack, bam.run_flag, result, FALSE, history)
    /\ op' = Op("stop", NULL, 0, 0, result, NoFrame)
    /\ host_log' = << >>
    /\ UNCHANGED <<fn_in, fn_out, fn_pc>>

\* the application calls bam_quit(result)
Quit(result, history) ==
    /\ AppRunning
    /\ LET m == bam_quit(Machine(bam, stack), result)
       IN  /\ bam' = m.bam
           /\ stack' = NoteStop(m.stack, bam.run_flag, result, TRUE, history)
    /\ op' = Op("quit", NULL, 0, 0, result, NoFrame)
    /\ host_log' = << >>
    /\ UNCHANGED <<fn_in, fn_out, fn_pc>>

\* an API call that changes the context only
ApiCall(name, widget, b) ==
    /\ AppRunning
    /\ bam' = b
    /\ op' = Op(name, widget, 0, 0, 0, NoFrame)
    /\ host_log' = << >>
    /\ UNCHANGED <<stack, fn_in, fn_out, fn_pc>>

\* a plausible slip: the pool counts as full one widget too late
PoolFull_late(b) == Len(b.widgets) > b.widget_buffer_size

\* bam_add_widget, line 601: widget_buffer_ptr >= widget_buffer_end
PoolFull(b) == Len(b.widgets) >= b.widget_buffer_size

\* bam_add_widget, the pool not being full
AddWidget(r, style, text, enabled) ==
    /\ ~PoolFull(bam)
    /\ ApiCall("add", Len(bam.widgets),
               bam_add_widget(bam, r.x1, r.y1, rect_width(r), rect_height(r), style, text, enabled))

\* bam_add_widget, the pool being full: panic(OUT_OF_MEMORY) does not return
AddWidgetPanic ==
    /\ AppRunning
    /\ PoolFull(bam)
    /\ op' = Op("panic", NULL, 0, 0, BAM_PANIC_CODE_OUT_OF_MEMORY, NoFrame)
    /\ host_log' = << >>
    /\ UNCHANGED <<bam, stack, fn_in, fn_out, fn_pc>>

DeleteWidgets == ApiCall("delete", NULL, bam_delete_widgets(bam))

ForceRedraw(widget) == ApiCall("force_redraw", widget, bam_force_widget_redraw(bam, widget))

SetCallback(widget, callback, user_data) ==
    ApiCall("set_callback", widget, bam_set_widget_callback(bam, widget, callback, user_data))

SetBounds(widget, bounds) ==
    ApiCall("set_bounds", widget, bam_set_widget_bounds(bam, widget, bounds))

SetStyle(widget, style) ==
    ApiCall("set_style", widget, bam_set_widget_style(bam, widget, style))

SetText(widget, text) ==
    ApiCall("set_text", widget, bam_set_widget_text(bam, widget, text))

SetEnabled(widget, enabled) ==
    ApiCall("set_enabled", widget, bam_set_widget_enabled(bam, widget, enabled))

\* ------------------------------------------------------------------ Spec: widgets and events

\* depth of loop nesting explored
MaxNest == 2

\* the display of Spec and SpecScene: two tiles side by side; the pool holds two widgets
MainDisplay == [w |-> 4, h |-> 2, tw |-> 2, th |-> 2, widget_buffer_size |-> 2]

MainContext ==
    bam_init(ConstBuffer(BAM_DIRTY_BUFFER_SIZE(MainDisplay.w, MainDisplay.h,
                                               MainDisplay.tw, MainDisplay.th), {}),
             MainDisplay.widget_buffer_size,
             MainDisplay.w, MainDisplay.h, MainDisplay.tw, MainDisplay.th)

\* rectangles given to bam_add_widget (x, y, width, height): the first lies in the
\* left tile, the second overlaps it and straddles both tiles
AddRects == { rect_init(0, 0, 2, 2), rect_init(1, 0, 2, 2) }

\* points of the press and release events: in the first rectangle only, in both
EventPoints == { <<0, 0>>, <<1, 1>> }

\* what get_event delivers: a timeout, a quit request, an event of a type the
\* switch does not know, a press or a release at a point
Events(points) ==
    { [type |-> t, x |-> 0, y |-> 0] : t \in {"NONE", "QUIT", "OTHER"} }
    \cup { [type |-> t, x |-> p[1], y |-> p[2]] : t \in {"PRESS", "RELEASE"}, p \in points }

Init ==
    /\ bam = MainContext
    /\ stack = << >>
    /\ op = NoOp
    /\ host_log = << >>
    /\ fn_in = << >>
    /\ fn_out = << >>
    /\ fn_pc = "run"

StartLoop == Start(MaxNest)

GetEvent == \E event \in Events(EventPoints) : LoopEvent(event, FALSE)

CallStop == Stop(7, FALSE)

CallAdd == \E r \in AddRects, enabled \in BOOLEAN : AddWidget(r, "NULL", "NULL", enabled)

\* each widget is given a user pointer of its own
CallSetCallback == \E widget \in Handles(bam) : SetCallback(widget, "callback", 11 + widget)

CallSetEnabled == \E widget \in Handles(bam), enabled \in BOOLEAN : SetEnabled(widget, enabled)

Next ==
    \/ StartLoop \/ LoopClean \/ GetEvent \/ LoopCheck \/ CbReturn \/ CallStop
    \/ CallAdd \/ AddWidgetPanic \/ DeleteWidgets \/ CallSetCallback
    \/ CallSetEnabled

Spec == Init /\ [][Next]_vars

\* ------------------------------------------------------------------ SpecScene: appearance

\* rectangles given to bam_set_widget_bounds: inverted, of no width, in the right tile
SceneRects == { Rect(3, 0, 1, 2), Rect(1, 0, 1, 2), Rect(2, 0, 4, 1) }

\* points of the press and release events in SpecScene
ScenePoints == { <<0, 0>>, <<1, 1>>, <<2, 0>> }

GetEventScene == \E event \in Events(ScenePoints) : LoopEvent(event, FALSE)

TextA == StrMem(<<65>>, 255)

CallSetBoundsScene == \E widget \in Handles(bam), r \in SceneRects : SetBounds(widget, r)

\* the application restyles and relabels its first widget
CallSetStyle == \E style \in {"NULL", "alt"} : Handles(bam) # {} /\ SetStyle(0, style)

CallSetText == \E text \in {"NULL", TextA} : Handles(bam) # {} /\ SetText(0, text)

CallForceRedraw == \E widget \in Handles(bam) : ForceRedraw(widget)

\* main builds and changes the scene between runs of the event loop; no widget has
\* a callback, so the loop ends on a QUIT event
NextScene ==
    \/ StartLoop \/ LoopClean \/ GetEventScene \/ LoopCheck
    \/ CallAdd \/ DeleteWidgets
    \/ CallSetBoundsScene \/ CallSetStyle \/ CallSetText \/ CallSetEnabled \/ CallForceRedraw

SpecScene == Init /\ [][NextScene]_vars

\* ------------------------------------------------------------------ SpecLoop: nested loops

\* depth of loop nesting explored
MaxDepth == 3

\* one tile; one widget with a callback covers the display (main, before its loop)
LoopScene ==
    bam_set_widget_callback(
        bam_add_widget(bam_init(ConstBuffer(BAM_DIRTY_BUFFER_SIZE(2, 2, 2, 2), {}), 1, 2, 2, 2, 2),
                       0, 0, 2, 2, "NULL", "NULL", TRUE),
        0, "callback", 1)

\* results given to bam_stop and to bam_quit
StopResults == { 3, 7 }

QuitResults == { 9 }

InitLoop ==
    /\ bam = LoopScene
    /\ stack = << >>
    /\ op = NoOp
    /\ host_log = << >>
    /\ fn_in = << >>
    /\ fn_out = << >>
    /\ fn_pc = "run"

StartNested == Start(MaxDepth)

GetEventNested == \E event \in Events({ <<0, 0>> }) : LoopEvent(event, TRUE)

CallStopNested == \E r \in StopResults : Stop(r, TRUE)

CallQuitNested == \E r \in QuitResults : Quit(r, TRUE)

NextLoop ==
    \/ StartNested \/ LoopClean \/ GetEventNested \/ LoopCheck \/ CbReturn
    \/ CallStopNested \/ CallQuitNested

SpecLoop == InitLoop /\ [][NextLoop]_vars

\* ------------------------------------------------------------------ SpecHit: hit-test under test

\* number of widgets in the pools tried
HitMaxWidgets == 3

\* rectangles of the widgets: overlapping ones, one of no width, an inverted one
HitRects ==
    { Rect(0, 0, 2, 2), Rect(1, 1, 3, 3), Rect(0, 0, 4, 1), Rect(1, 0, 1, 2), Rect(3, 0, 1, 2) }

HitPoints == (0 .. 3) \X (0 .. 2)

HitContext ==
    bam_init(ConstBuffer(BAM_DIRTY_BUFFER_SIZE(4, 3, 2, 2), {}), HitMaxWidgets, 4, 3, 2, 2)

\* the pool after a widget was added and given the bounds rects[j], for each j of
\* i .. Len(rects) in turn
RECURSIVE AddAll(_, _, _)
AddAll(b, rects, i) ==
    IF i > Len(rects) THEN b
    ELSE AddAll(bam_set_widget_bounds(bam_add_widget(b, 0, 0, 1, 1, "NULL", "NULL", TRUE),
                                      i - 1, rects[i]),
                rects, i + 1)

InitHit ==
    /\ \E n \in 0 .. HitMaxWidgets : \E rects \in [1 .. n -> HitRects] :
          bam = AddAll(HitContext, rects, 1)
    /\ fn_in \in HitPoints
    /\ fn_out = NULL
    /\ fn_pc = "run"
    /\ stack = << >>
    /\ op = NoOp
    /\ host_log = << >>

\* widget_find_at_point is run on the pool and the point
HitTest ==
    /\ fn_pc = "run"
    /\ fn_out' = widget_find_at_point(bam, fn_in[1], fn_in[2])
    /\ fn_pc' = "done"
    /\ UNCHANGED <<bam, stack, op, host_log, fn_in>>

NextHit == HitTest

SpecHit == InitHit /\ [][NextHit]_vars

\* ------------------------------------------------------------------ nested loops: claims

\* The bam_start invocation that returned in the last step was nested in another.
ReturnedNested == op.name = "return" /\ op.frame.saved_run_flag # NULL

\* C1 as stated: with loops nested, the bam_start whose run flag bam_stop(r) cleared
\* returns r (whatever the callback does between that bam_stop and its own return).
C1_StopReturnsR_Original ==
    (ReturnedNested /\ op.frame.by = "stop") => op.r = op.frame.stop_r

\* a bam_start returns only when its own run flag was cleared or the quit flag is set;
\* one whose flag bam_stop(r) cleared returns r unless bam_stop/bam_quit acted on
\* another loop in between
C1_Returns ==
    op.name = "return" =>
        /\ op.frame.by # "none" \/ bam.quit_flag
        /\ (op.frame.by = "stop" /\ ~op.frame.clobbered) => op.r = op.frame.stop_r

\* bam_stop clears the run flag of the innermost loop and touches neither the run
\* flag of another loop nor the quit flag
C1_StopStep ==
    op'.name = "stop" =>
        /\ bam'.quit_flag = bam.quit_flag
        /\ bam'.run_flag = bam.run_flag
        /\ \A i \in DOMAIN stack :
              stack'[i].run_flag = (stack[i].run_flag /\ i # bam.run_flag)

\* C1: with loops nested, bam_stop(r) in the innermost loop makes that bam_start
\* alone return, with value r unless bam_stop or bam_quit acts on a loop nested
\* deeper before it returns; the run flags of the enclosing loops and the quit flag
\* are left as they were, and an enclosing loop leaves only when its own run flag
\* is cleared or the quit flag is set.
C1_StopInnermost == [] C1_Returns /\ [][C1_StopStep]_vars

\* the inner of two loops returns 7 after bam_stop(7); the outer loop, its callback
\* still running, has its run flag set and the quit flag is clear
C1_Witness ==
    /\ ReturnedNested /\ op.frame.by = "stop" /\ op.r = 7 /\ op.frame.stop_r = 7
    /\ Len(stack) = 2 /\ stack[1].kind = "loop" /\ stack[1].run_flag
    /\ ~bam.quit_flag

\* after bam_quit (or a QUIT event) no loop that was running iterates again: each
\* waits at its loop condition, and the quit flag stays set
C2_NoMoreEvents ==
    \A i \in LoopsOf(stack) :
        stack[i].quit_seen => stack[i].pc = "check" /\ bam.quit_flag

\* a bam_start returns the result last recorded while it ran; the one bam_quit(r)
\* acted on returns r unless bam_stop/bam_quit acted on another loop in between
C2_Returns ==
    op.name = "return" =>
        /\ op.frame.last_r # NULL => op.r = op.frame.last_r
        /\ (op.frame.by = "quit" /\ ~op.frame.clobbered) => op.r = op.frame.stop_r

\* bam_quit(r) and a QUIT event (r = 0) record r, clear the run flag of the
\* innermost loop and set the quit flag
C2_QuitStep ==
    (op.name \in {"quit", "QUIT"} /\ bam.run_flag # NULL) =>
        /\ bam.run_result = op.r /\ bam.quit_flag
        /\ ~stack[bam.run_flag].run_flag
        /\ stack[bam.run_flag].by = "quit" /\ stack[bam.run_flag].stop_r = op.r
        /\ op.name = "QUIT" => op.r = 0

\* C2: bam_quit(r) in the innermost of n >= 1 loops makes that loop return r and
\* every enclosing loop leave at its next loop-condition check without fetching
\* another event, each returning the result last recorded (r unless bam_stop or
\* bam_quit is called again in between); a QUIT event does the same with r = 0.
C2_QuitCascade == C2_NoMoreEvents /\ C2_Returns /\ C2_QuitStep

\* the outermost of nested loops, never stopped itself, returns the 9 that
\* bam_quit(9) recorded in a loop nested in it
C2_Witness ==
    /\ op.name = "return" /\ op.frame.saved_run_flag = NULL
    /\ op.frame.by = "none" /\ op.frame.quit_seen
    /\ op.r = 9 /\ op.frame.last_r = 9
    /\ stack = << >>

\* ------------------------------------------------------------------ widgets: claims

\* the widgets whose rectangle contains (x, y), both axes half-open
Containing(b, x, y) ==
    { w \in Handles(b) :
        LET r == b.widgets[w + 1].rect
        IN  r.x1 <= x /\ x < r.x2 /\ r.y1 <= y /\ y < r.y2 }

\* the widget added last among those containing (x, y), NULL when there is none
TopmostAt(b, x, y) ==
    IF Containing(b, x, y) = {} THEN NULL ELSE SetMax(Containing(b, x, y))

StateOf(b, w) == b.widgets[w + 1].state

RectOf(b, w) == b.widgets[w + 1].rect

\* every display tile overlapping rect is dirty in b
RectDirty(b, rect) == \A t \in TilesOverlapping(b, rect) : TileSet(b, b.dirty_buffer, t)

\* rect is empty: x2 <= x1 or y2 <= y1
IsEmpty(rect) == rect.x2 <= rect.x1 \/ rect.y2 <= rect.y1

\* the step is the event switch of a loop, on an event of type `type`
EventStep(type) == Top.kind = "loop" /\ Top.pc = "wait" /\ op'.name = type

\* the step enters a widget callback
CallbackEntered == Len(stack') = Len(stack) + 1 /\ stack'[Len(stack')].kind = "cb"

\* C3: between API calls, at most one widget of the pool has state Pressed, and
\* if one does it is the widget the pressed-widget pointer designates.
C3_PressedInvariant ==
    /\ \A w \in Handles(bam) : StateOf(bam, w) = BAM_STATE_PRESSED => bam.pressed_widget = w
    /\ Cardinality({ w \in Handles(bam) : StateOf(bam, w) = BAM_STATE_PRESSED }) <= 1

\* in a loop nested in another, the second of two widgets has just been pressed
C3_Witness ==
    /\ op.name = "PRESS" /\ Cardinality(LoopsOf(stack)) = 2
    /\ Len(bam.widgets) = 2 /\ bam.pressed_widget = 1
    /\ StateOf(bam, 1) = BAM_STATE_PRESSED /\ StateOf(bam, 0) = BAM_STATE_ENABLED

\* a RELEASE at (x, y) enters a callback iff a widget is pressed, it is the topmost
\* widget at (x, y) and it has a callback; the callback frame is that widget's, with
\* its user pointer; the pressed pointer is then null and the widget it pointed at
\* Enabled, its rectangle dirty
C4_Release ==
    EventStep("RELEASE") =>
        LET p == bam.pressed_widget
            hit == TopmostAt(bam, op'.x, op'.y)
        IN  /\ CallbackEntered <=>
                  (p # NULL /\ hit = p /\ bam.widgets[p + 1].callback # "NULL")
            /\ CallbackEntered =>
                  /\ stack'[Len(stack')] = CbFrame(p, bam.widgets[p + 1].user_data)
                  /\ SubSeq(stack', 1, Len(stack)) =
                        [stack EXCEPT ![Len(stack)].pc = "check", ![Len(stack)].need_clean = TRUE]
            /\ bam'.pressed_widget = NULL
            /\ p # NULL =>
                  /\ StateOf(bam', p) = BAM_STATE_ENABLED
                  /\ RectDirty(bam', RectOf(bam', p))

\* a callback is entered by the RELEASE step of a loop only
C4_OnlyRelease == CallbackEntered => EventStep("RELEASE")

\* C4: on a RELEASE at (x, y) a callback is invoked iff a pressed widget exists, the
\* hit-test at (x, y) returns it and it has a callback, once, with its handle and
\* user pointer; afterwards the pressed pointer is null and the formerly pressed
\* widget Enabled and dirty; no other event invokes a callback.
C4_ReleaseCallback == [][C4_Release /\ C4_OnlyRelease]_vars

\* the callback of the second widget runs, entered with its handle and user pointer
\* by a RELEASE on it
C4_Witness ==
    /\ op.name = "RELEASE" /\ op.widget = 1
    /\ Top.kind = "cb" /\ Top.widget = 1 /\ Top.user_data = 12
    /\ bam.pressed_widget = NULL /\ StateOf(bam, 1) = BAM_STATE_ENABLED
    /\ RectDirty(bam, RectOf(bam, 1))

\* the PRESS step of a loop, against the topmost widget containing the point
C5_Press ==
    EventStep("PRESS") =>
        LET p == bam.pressed_widget
            hit == TopmostAt(bam, op'.x, op'.y)
        IN  IF hit # NULL /\ StateOf(bam, hit) = BAM_STATE_ENABLED
            THEN /\ bam'.pressed_widget = hit
                 /\ StateOf(bam', hit) = BAM_STATE_PRESSED
                 /\ RectDirty(bam', RectOf(bam', hit))
                 /\ (p # NULL /\ p # hit) =>
                       /\ StateOf(bam', p) = BAM_STATE_ENABLED
                       /\ RectDirty(bam', RectOf(bam', p))
            ELSE /\ bam'.widgets = bam.widgets
                 /\ bam'.pressed_widget = bam.pressed_widget
                 /\ bam'.dirty_buffer = bam.dirty_buffer

\* C5: on a PRESS at (x, y), if the topmost widget containing the point is Enabled
\* it becomes the pressed widget (Pressed, dirty) and another widget pressed before
\* returns to Enabled, dirty; otherwise (no widget there, or the topmost Disabled or
\* Pressed) the widgets, the pressed pointer and the dirty bitmap are unchanged,
\* even when an Enabled widget lies beneath.
C5_PressEvent == [][C5_Press]_vars

\* a PRESS at a point of a Disabled widget lying over an Enabled one pressed nothing
C5_Witness ==
    /\ op.name = "PRESS" /\ Len(bam.widgets) = 2
    /\ Containing(bam, op.x, op.y) = {0, 1}
    /\ StateOf(bam, 1) = BAM_STATE_DISABLED /\ StateOf(bam, 0) = BAM_STATE_ENABLED
    /\ bam.pressed_widget = NULL

\* C6: the hit-test returns the widget with the greatest insertion index among those
\* whose rectangle contains the point (half-open), and null iff none contains it.
C6_HitTopmost ==
    fn_pc = "done" =>
        /\ fn_out = TopmostAt(bam, fn_in[1], fn_in[2])
        /\ fn_out = NULL <=> Containing(bam, fn_in[1], fn_in[2]) = {}
        /\ fn_out # NULL =>
              /\ fn_out \in Containing(bam, fn_in[1], fn_in[2])
              /\ \A w \in Containing(bam, fn_in[1], fn_in[2]) : w <= fn_out

\* of three widgets the first two contain the point: the second is returned
C6_Witness ==
    /\ fn_pc = "done" /\ Len(bam.widgets) = 3
    /\ Containing(bam, fn_in[1], fn_in[2]) = {0, 1}
    /\ fn_out = 1

\* the points tried on the hit-test: the display and a margin around it
ProbePoints == (-1 .. 4) \X (-1 .. 2)

\* a widget of empty rectangle has no draw call in the host calls of a clean pass
\* and is the answer of the hit-test at no point
C7_NotDrawnNotHit ==
    \A w \in Handles(bam) :
        IsEmpty(RectOf(bam, w)) =>
            /\ \A i \in DOMAIN host_log : host_log[i].widget # w
            /\ \A q \in ProbePoints : widget_find_at_point(bam, q[1], q[2]) # w

\* no step makes a widget of empty rectangle Pressed, no RELEASE triggers one
C7_Step ==
    /\ \A w \in Handles(bam) \cap Handles(bam') :
          (StateOf(bam', w) = BAM_STATE_PRESSED /\ StateOf(bam, w) # BAM_STATE_PRESSED)
              => ~IsEmpty(RectOf(bam', w))
    /\ (EventStep("RELEASE") /\ op'.widget # NULL) => ~IsEmpty(RectOf(bam, op'.widget))

\* C7: a widget whose rectangle is empty (inverted ones included) causes no host
\* draw_fill or draw_glyph call in a clean pass and is never returned by the
\* hit-test, so it never becomes pressed or triggered.
C7_EmptyWidget == [] C7_NotDrawnNotHit /\ [][C7_Step]_vars

\* a clean pass has drawn the second widget while the first, labelled and restyled,
\* has a rectangle of no width
C7_Witness ==
    /\ op.name = "clean" /\ Len(bam.widgets) = 2
    /\ RectOf(bam, 0) = Rect(1, 0, 1, 2)
    /\ bam.widgets[1].text = TextA /\ bam.widgets[1].style = "alt"
    /\ \E i \in DOMAIN host_log : host_log[i].widget = 1

\* what a widget looks like
Appearance(b, w) ==
    << b.widgets[w + 1].rect, b.widgets[w + 1].text, b.widgets[w + 1].style,
       b.widgets[w + 1].state >>

\* a step that changes what a widget looks like, sets its bounds or adds it leaves
\* the tiles of its rectangle (before and after the step) dirty
C8_Step ==
    /\ \A w \in Handles(bam) \cap Handles(bam') :
          (Appearance(bam, w) # Appearance(bam', w) \/ (op'.name = "set_bounds" /\ op'.widget = w))
              => /\ RectDirty(bam', RectOf(bam, w))
                 /\ RectDirty(bam', RectOf(bam', w))
    /\ op'.name = "add" => RectDirty(bam', RectOf(bam', op'.widget))

\* C8: after every operation that changes what a widget looks like (add, set_bounds,
\* set_text, set_style or set_enabled with a different value, the press and release
\* transitions) every display tile overlapping the widget's rectangle is dirty; for
\* set_bounds, those overlapping the old rectangle and those overlapping the new.
C8_DirtyAfterChange == [][C8_Step]_vars

\* after a clean pass the widget in the left tile was given a new text: the left
\* tile is dirty, the right one is not
C8_Witness ==
    /\ op.name = "set_text" /\ op.widget = 0 /\ Len(bam.widgets) = 1
    /\ RectOf(bam, 0) = Rect(0, 0, 2, 2) /\ bam.widgets[1].text = TextA
    /\ DirtyTiles(bam) = { <<0, 0>> }

\* ------------------------------------------------------------------ Mark under test

\* display geometries and the rectangle coordinates tried on each
MarkConfigs ==
    { [w |-> 800, h |-> 480, tw |-> 32, th |-> 32,
       xs |-> {-40, 0, 30, 40, 60, 70, 800, 810},
       ys |-> {-40, 30, 40, 60, 70, 480}],
      [w |-> 69, h |-> 5, tw |-> 2, th |-> 2,
       xs |-> {-3, 0, 1, 63, 64, 65, 69, 70, 71},
       ys |-> {-1, 0, 4, 5, 6, 7}],
      [w |-> 133, h |-> 2, tw |-> 2, th |-> 2,
       xs |-> {-1, 0, 1, 62, 64, 65, 126, 128, 130, 133, 134},
       ys |-> {0, 1, 2}],
      [w |-> 5, h |-> 3, tw |-> 2, th |-> 2,
       xs |-> -1 .. 6,
       ys |-> -1 .. 4] }

MarkRects(c) == { Rect(x1, y1, x2, y2) : <<x1, y1, x2, y2>> \in c.xs \X c.ys \X c.xs \X c.ys }

\* prior contents of the buffer: clean, every bit set, every other bit set
MarkPriors(c) ==
    LET n == BAM_DIRTY_BUFFER_SIZE(c.w, c.h, c.tw, c.th)
    IN  { ConstBuffer(n, {}), ConstBuffer(n, BAM__UINT32_MASK),
          ConstBuffer(n, { k \in BAM__UINT32_MASK : k % 2 = 1 }) }

InitMark ==
    /\ \E c \in MarkConfigs :
         /\ \E prior \in MarkPriors(c) :
              bam = [bam_init(prior, 0, c.w, c.h, c.tw, c.th) EXCEPT !.dirty_buffer = prior]
         /\ fn_in \in MarkRects(c)
    /\ fn_out = <<>>
    /\ fn_pc = "call"
    /\ stack = <<>>
    /\ op = NoOp
    /\ host_log = <<>>

\* dirty_mark_rect(bam, fn_in)
MarkRect ==
    /\ fn_pc = "call"
    /\ bam' = dirty_mark_rect(bam, fn_in)
    /\ fn_out' = bam.dirty_buffer
    /\ fn_pc' = "done"
    /\ UNCHANGED <<stack, op, host_log, fn_in>>

NextMark == MarkRect

SpecMark == InitMark /\ [][NextMark]_vars

\* C9: after Mark(R), whatever R and the prior content, every tile overlapping
\* R /\ display is dirty, no bit that was set is cleared, and no bit is newly set
\* for a column >= ceil(W/tw) or a row >= ceil(H/th).
C9_MarkMonotone ==
    fn_pc = "done" =>
        /\ \A t \in TilesOverlapping(bam, fn_in) : TileSet(bam, bam.dirty_buffer, t)
        /\ \A i \in DOMAIN fn_out : fn_out[i] \subseteq bam.dirty_buffer[i]
        /\ ~SetsBitOutsideDisplay(bam, fn_out, bam.dirty_buffer)

\* C9 witness: a rectangle partly off-screen (negative origin) marked over a
\* non-clean buffer, in a geometry whose rows span several words.
C9_Witness ==
    /\ fn_pc = "done"
    /\ fn_in.x1 < 0 /\ fn_in.x2 > bam.disp_width /\ ~rect_empty(fn_in)
    /\ bam.dirty_buffer_pitch > 1
    /\ fn_out # bam.dirty_buffer
    /\ \E i \in DOMAIN fn_out : fn_out[i] # {}

\* C10 as stated: on an all-clean buffer Mark(R) dirties exactly the tiles that
\* overlap R /\ display, for every rectangle R.
C10_MarkExact_Original ==
    (fn_pc = "done" /\ \A i \in DOMAIN fn_out : fn_out[i] = {}) =>
        /\ DirtyTiles(bam) = TilesOverlapping(bam, fn_in)
        /\ ~SetsBitOutsideDisplay(bam, fn_out, bam.dirty_buffer)

\* C10 amended: on an all-clean buffer, for every non-empty rectangle R, Mark(R)
\* dirties exactly the tiles that overlap R /\ tile grid (the display rounded up to
\* whole tiles, which is the display when W and H are multiples of the tile size);
\* with 800x480 and 32x32 tiles, (40,40)+20x20 dirties exactly tile (1,1) and
\* (30,30)-(70,70) exactly the 9 tiles of columns 0..2 and rows 0..2; a non-empty
\* rectangle with no point in the tile grid dirties no tile.
C10_MarkExact ==
    (fn_pc = "done" /\ (\A i \in DOMAIN fn_out : fn_out[i] = {}) /\ ~rect_empty(fn_in)) =>
        /\ DirtyTiles(bam) = TilesOverlappingGrid(bam, fn_in)
        /\ ~SetsBitOutsideDisplay(bam, fn_out, bam.dirty_buffer)
        /\ (bam.disp_width = 800 /\ bam.tile_width = 32 /\ fn_in = rect_init(40, 40, 20, 20))
              => DirtyTiles(bam) = { <<1, 1>> }
        /\ (bam.disp_width = 800 /\ bam.tile_width = 32 /\ fn_in = Rect(30, 30, 70, 70))
              => DirtyTiles(bam) = (0 .. 2) \X (0 .. 2)
        /\ (~ \E t \in DisplayTiles(bam) : HaveCommonPixel(fn_in, GridRect(bam), TileRect(bam, t)))
              => DirtyTiles(bam) = {}

\* C10 witness: the straddling rectangle of the 800x480 scenario marked on a clean buffer
C10_Witness ==
    /\ fn_pc = "done"
    /\ bam.disp_width = 800 /\ bam.tile_width = 32
    /\ fn_in = Rect(30, 30, 70, 70)
    /\ \A i \in DOMAIN fn_out : fn_out[i] = {}
    /\ Cardinality(DirtyTiles(bam)) = 9

\* ------------------------------------------------------------------ Clean under test

\* display geometries, the length of the dirty buffer handed to bam_init and the
\* tile columns and rows out of which the dirty sets are drawn: two words for two
\* rows, rows of two words, a buffer one word longer than needed
CleanConfigs ==
    { [w |-> 5, h |-> 3, tw |-> 2, th |-> 2, len |-> 2, cols |-> 0 .. 2, rows |-> 0 .. 1],
      [w |-> 68, h |-> 2, tw |-> 2, th |-> 1, len |-> 4, cols |-> {0, 31, 32, 33}, rows |-> 0 .. 1],
      [w |-> 4, h |-> 2, tw |-> 2, th |-> 2, len |-> 2, cols |-> 0 .. 1, rows |-> 0 .. 0] }

\* the buffer of b in which exactly the bits of the tiles of `tiles` are set
BufferOf(b, tiles) ==
    [i \in DOMAIN b.dirty_buffer |->
        { bit \in BAM__UINT32_MASK : TileOfBit(b, i, bit) \in tiles }]

\* the context of configuration c, its pool empty or holding one labelled widget
CleanContext(c, with_widget) ==
    LET b == bam_init(ConstBuffer(c.len, {}), 1, c.w, c.h, c.tw, c.th)
    IN  IF with_widget THEN bam_add_widget(b, 1, 0, 2, 2, "NULL", TextA, TRUE) ELSE b

InitClean ==
    /\ \E c \in CleanConfigs, with_widget \in BOOLEAN :
         \E tiles \in SUBSET (c.cols \X c.rows) :
            bam = [CleanContext(c, with_widget) EXCEPT
                      !.dirty_buffer = BufferOf(CleanContext(c, with_widget), tiles)]
    /\ fn_in = << >>
    /\ fn_out = {}
    /\ fn_pc = "call"
    /\ stack = << >>
    /\ op = NoOp
    /\ host_log = << >>

\* dirty_clean(bam); fn_out keeps the tiles that were dirty when it was called
CleanPass ==
    /\ fn_pc = "call"
    /\ bam' = dirty_clean(bam)
    /\ host_log' = CleanCalls(bam)
    /\ fn_out' = DirtyTiles(bam)
    /\ fn_pc' = "done"
    /\ UNCHANGED <<stack, op, fn_in>>

NextClean == CleanPass

SpecClean == InitClean /\ [][NextClean]_vars

\* the indices of the blt_tile calls of a sequence of host calls for the point (x, y)
BltCallsAt(log, x, y) ==
    { i \in DOMAIN log : log[i].fn = "blt_tile" /\ log[i].x = x /\ log[i].y = y }

\* C11: one Clean pass, nothing else changing the context meanwhile, issues exactly
\* one blt_tile(c*tw, r*th) for each tile (c, r) dirty at its start and no other
\* blt_tile call, and leaves every word of the bitmap zero.
C11_CleanConvergence ==
    fn_pc = "done" =>
        /\ \A t \in fn_out :
              Cardinality(BltCallsAt(host_log, t[1] * bam.tile_width, t[2] * bam.tile_height)) = 1
        /\ \A i \in DOMAIN host_log :
              host_log[i].fn = "blt_tile" =>
                  \E t \in fn_out : /\ host_log[i].x = t[1] * bam.tile_width
                                    /\ host_log[i].y = t[2] * bam.tile_height
        /\ \A i \in DOMAIN bam.dirty_buffer : bam.dirty_buffer[i] = {}

\* a pass over rows of two words cleaned five tiles, two of them in second words,
\* drawing the widget of the pool
C11_Witness ==
    /\ fn_pc = "done" /\ bam.dirty_buffer_pitch = 2 /\ Len(bam.widgets) = 1
    /\ fn_out = { <<0, 0>>, <<31, 0>>, <<32, 0>>, <<33, 1>>, <<0, 1>> }
    /\ BltCallsAt(host_log, 64, 0) # {} /\ BltCallsAt(host_log, 66, 1) # {}
    /\ \E i \in DOMAIN host_log : host_log[i].widget = 0

\* ------------------------------------------------------------------ setters under test

\* the scene the setters are tried on: main adds two widgets side by side (the first
\* with any style, text and state), the loop cleans; then no widget, the first or
\* the second is pressed, the loop cleans again or not, and a QUIT event hands
\* control back to main with the widget still pressed
SetterContexts ==
    { LET b1 == bam_add_widget(MainContext, 0, 0, 2, 2, style, text, enabled)
          b2 == dirty_clean(bam_add_widget(b1, 2, 0, 2, 2, "NULL", "NULL", TRUE))
          b3 == IF pressed = NULL THEN b2 ELSE widget_set_pressed(b2, pressed)
      IN  IF cleaned THEN dirty_clean(b3) ELSE b3 :
        style \in {"NULL", "alt"}, text \in {"NULL", TextA}, enabled \in BOOLEAN,
        pressed \in {NULL, 1}, cleaned \in BOOLEAN }
    \cup
    { LET b1 == bam_add_widget(MainContext, 0, 0, 2, 2, style, text, TRUE)
          b2 == dirty_clean(bam_add_widget(b1, 2, 0, 2, 2, "NULL", "NULL", TRUE))
          b3 == widget_set_pressed(b2, 0)
      IN  IF cleaned THEN dirty_clean(b3) ELSE b3 :
        style \in {"NULL", "alt"}, text \in {"NULL", TextA}, cleaned \in BOOLEAN }

\* the texts handed to bam_set_widget_text: null, empty ones and "A" at different
\* addresses (told apart by the bytes that follow their NUL)
SetterTexts == { "NULL", <<0, 0, 0, 0, 0>>, <<0, 255, 255, 255, 255>>, TextA, StrMem(<<65>>, 0) }

SetterCall(fn, widget, arg) == [fn |-> fn, widget |-> widget, arg |-> arg]

InitSetters ==
    /\ bam \in SetterContexts
    /\ \E widget \in 0 .. 1 :
          \/ \E enabled \in BOOLEAN : fn_in = SetterCall("set_enabled", widget, enabled)
          \/ \E text \in SetterTexts : fn_in = SetterCall("set_text", widget, text)
          \/ \E style \in {"NULL", "default", "alt"} : fn_in = SetterCall("set_style", widget, style)
    /\ fn_out = << >>
    /\ fn_pc = "call"
    /\ stack = << >>
    /\ op = NoOp
    /\ host_log = << >>

\* main calls the setter fn_in names; fn_out keeps the context it was called on
SetterRun(fn, b) ==
    /\ fn_pc = "call" /\ fn_in.fn = fn
    /\ bam' = b
    /\ fn_out' = bam
    /\ fn_pc' = "done"
    /\ UNCHANGED <<stack, op, host_log, fn_in>>

RunSetEnabled == SetterRun("set_enabled", bam_set_widget_enabled(bam, fn_in.widget, fn_in.arg))

RunSetText == SetterRun("set_text", bam_set_widget_text(bam, fn_in.widget, fn_in.arg))

RunSetStyle == SetterRun("set_style", bam_set_widget_style(bam, fn_in.widget, fn_in.arg))

NextSetters == RunSetEnabled \/ RunSetText \/ RunSetStyle

SpecSetters == InitSetters /\ [][NextSetters]_vars

\* the bytes of a text up to its NUL
TextBytes(mem) ==
    SubSeq(mem, 1, (CHOOSE n \in 0 .. (Len(mem) - 1) :
                        mem[n + 1] = 0 /\ \A k \in 1 .. n : mem[k] # 0))

\* the argument of the call is the value widget call.widget has in b: the value
\* get_enabled returns, a text with the same bytes (null being the empty text), the
\* same style (null being the default style)
ArgIsCurrent(b, call) ==
    CASE call.fn = "set_enabled" -> call.arg = bam_get_widget_enabled(b, call.widget)
      [] call.fn = "set_text" ->
            TextBytes(IF call.arg = "NULL" THEN <<0>> ELSE call.arg)
                = TextBytes(b.widgets[call.widget + 1].text)
      [] call.fn = "set_style" ->
            (IF call.arg = "NULL" THEN b.default_style ELSE call.arg)
                = b.widgets[call.widget + 1].style

\* the call left the dirty bitmap and the fields of every widget as they were
SetterChangedNothing == bam.dirty_buffer = fn_out.dirty_buffer /\ bam.widgets = fn_out.widgets

\* C12 as stated: for a widget in any state (Disabled, Enabled or Pressed), set_text
\* with a text bytewise equal to the current one, set_style with the current style
\* and set_enabled with the value get_enabled returns leave the dirty bitmap and
\* every field of the widget unchanged.
C12_SetterNoop_Original ==
    (fn_pc = "done" /\ ArgIsCurrent(fn_out, fn_in)) => SetterChangedNothing

\* C12, what the setters do: the same, except for set_enabled on a Pressed widget
C12_SetterNoop_NotPressed ==
    (/\ fn_pc = "done" /\ ArgIsCurrent(fn_out, fn_in)
     /\ ~(fn_in.fn = "set_enabled"
            /\ fn_out.widgets[fn_in.widget + 1].state = BAM_STATE_PRESSED))
        => SetterChangedNothing

\* C12: get_enabled returned false for the pressed first widget, and set_enabled(false)
\* made it Disabled and its tile dirty while it is still the pressed widget
C12_Witness ==
    /\ fn_pc = "done" /\ fn_in = SetterCall("set_enabled", 0, FALSE)
    /\ fn_out.widgets[1].state = BAM_STATE_PRESSED /\ ~bam_get_widget_enabled(fn_out, 0)
    /\ DirtyTiles(fn_out) = {} /\ DirtyTiles(bam) = { <<0, 0>> }
    /\ bam.widgets[1].state = BAM_STATE_DISABLED /\ bam.pressed_widget = 0

\* ------------------------------------------------------------------ pool: claims

\* the calls that set a property of the widget they name
SetterNames == { "set_bounds", "set_style", "set_text", "set_enabled", "set_callback",
                 "force_redraw" }

\* bam_add_widget returns the number of widgets the pool held and appends the new
\* widget; it and the setters leave every other widget of the pool at its handle,
\* with its fields
C13_Step ==
    /\ op'.name = "add" =>
          /\ op'.widget = Len(bam.widgets)
          /\ Len(bam'.widgets) = Len(bam.widgets) + 1
          /\ \A w \in Handles(bam) : bam'.widgets[w + 1] = bam.widgets[w + 1]
    /\ op'.name \in SetterNames =>
          /\ Len(bam'.widgets) = Len(bam.widgets)
          /\ \A w \in Handles(bam) \ { op'.widget } : bam'.widgets[w + 1] = bam.widgets[w + 1]

\* C13: Add returns as handle the number of widgets that were in the pool before the
\* call (0, 1, 2, ... since the last bulk delete); a later Add or a setter on another
\* handle changes neither the fields of an existing widget nor the widget a handle
\* designates, until the next bulk delete.
C13_HandleStability == [][C13_Step]_vars

\* the second widget was added with handle 1 after the first was relabelled,
\* restyled and moved: the first is as it was
C13_Witness ==
    /\ op.name = "add" /\ op.widget = 1 /\ Len(bam.widgets) = 2
    /\ bam.widgets[1].text = TextA /\ bam.widgets[1].style = "alt"
    /\ RectOf(bam, 0) = Rect(2, 0, 4, 1)

\* a call of bam_add_widget completes only on a pool that is not full; on a full
\* pool it ends in panic(OUT_OF_MEMORY) with the context as it was
C14_Step ==
    /\ op'.name = "add" => Len(bam.widgets) < bam.widget_buffer_size
    /\ op'.name = "panic" =>
          /\ op'.r = BAM_PANIC_CODE_OUT_OF_MEMORY
          /\ Len(bam.widgets) = bam.widget_buffer_size
          /\ Len(bam'.widgets) = Len(bam.widgets)
          /\ bam'.widgets = bam.widgets
          /\ bam'.dirty_buffer = bam.dirty_buffer

\* C14: Add on a pool holding as many widgets as its capacity invokes the host panic
\* with code OutOfMemory before anything is modified (pool top, every widget and the
\* dirty bitmap are as before the call); Add on a pool that is not full never panics.
C14_AddPanic == [][C14_Step]_vars

\* a callback running in a loop called bam_add_widget on the full pool of two
\* widgets, one tile being clean: the panic left pool and bitmap alone
C14_Witness ==
    /\ op.name = "panic" /\ op.r = BAM_PANIC_CODE_OUT_OF_MEMORY
    /\ Len(bam.widgets) = 2 /\ bam.widget_buffer_size = 2
    /\ Top.kind = "cb" /\ Cardinality(DirtyTiles(bam)) = 1

\* ------------------------------------------------------------------ bam_init under test

\* display and tile sizes handed to bam_init, with the number of words they need
InitConfigs ==
    { [w |-> 5, h |-> 3, tw |-> 2, th |-> 2, need |-> 2],
      [w |-> 64, h |-> 1, tw |-> 2, th |-> 1, need |-> 1],
      [w |-> 66, h |-> 3, tw |-> 2, th |-> 1, need |-> 6],
      [w |-> 68, h |-> 2, tw |-> 2, th |-> 1, need |-> 4],
      [w |-> 800, h |-> 480, tw |-> 32, th |-> 32, need |-> 15] }

\* what the memory of the context holds before bam_init: anything
Uninitialised(dirty_buffer, junk) ==
    [InitFields(dirty_buffer, 0, 1, 1, 1, 1) EXCEPT
        !.quit_flag = junk, !.run_flag = IF junk THEN 1 ELSE NULL,
        !.run_result = IF junk THEN 5 ELSE 0, !.pressed_widget = IF junk THEN 0 ELSE NULL]

\* bam_init is about to be called with the buffer bam.dirty_buffer (1 to need + 1
\* words long, holding anything) and the sizes fn_in
InitInit ==
    /\ fn_in \in InitConfigs
    /\ \E len \in 1 .. (fn_in.need + 1), junk \in BOOLEAN :
       \E word \in { {}, BAM__UINT32_MASK, { k \in BAM__UINT32_MASK : k % 2 = 1 } } :
          bam = Uninitialised(ConstBuffer(len, word), junk)
    /\ fn_out = << >>
    /\ fn_pc = "call"
    /\ stack = << >>
    /\ op = NoOp
    /\ host_log = << >>

\* the dirty_buffer_size argument: the length of the buffer handed in
BufferLen(b) == Cardinality(DOMAIN b.dirty_buffer)

\* bam_init with a buffer that is large enough; fn_out keeps the buffer handed in
InitReturns ==
    /\ fn_pc = "call"
    /\ ~DirtyBufferTooSmall(BufferLen(bam), fn_in.w, fn_in.h, fn_in.tw, fn_in.th)
    /\ bam' = bam_init(bam.dirty_buffer, 2, fn_in.w, fn_in.h, fn_in.tw, fn_in.th)
    /\ op' = Op("init", NULL, 0, 0, 0, NoFrame)
    /\ fn_out' = bam.dirty_buffer
    /\ fn_pc' = "done"
    /\ UNCHANGED <<stack, host_log, fn_in>>

\* bam_init with a buffer that is too small: panic(DIRTY_BUFFER_TOO_SMALL) does not
\* return, the context is as lines 1566-1599 left it
InitPanics ==
    /\ fn_pc = "call"
    /\ DirtyBufferTooSmall(BufferLen(bam), fn_in.w, fn_in.h, fn_in.tw, fn_in.th)
    /\ bam' = InitFields(bam.dirty_buffer, 2, fn_in.w, fn_in.h, fn_in.tw, fn_in.th)
    /\ op' = Op("panic", NULL, 0, 0, BAM_PANIC_CODE_DIRTY_BUFFER_TOO_SMALL, NoFrame)
    /\ fn_out' = bam.dirty_buffer
    /\ fn_pc' = "done"
    /\ UNCHANGED <<stack, host_log, fn_in>>

NextInit == InitReturns \/ InitPanics

SpecInit == InitInit /\ [][NextInit]_vars

\* ceil(a / b) for a >= 0, b > 0: the least n with n * b >= a
Ceil(a, b) == CHOOSE n \in 0 .. a : n * b >= a /\ \A m \in 0 .. (n - 1) : m * b < a

\* C15: bam_init panics with DirtyBufferTooSmall iff dirty_len <
\* ceil(ceil(W/tw)/32) * ceil(H/th); when it does no tile has been marked (the
\* buffer is as it was handed in); when it does not, init ends with every tile of
\* the display dirty, an empty pool, no pressed widget, no active loop and the quit
\* flag false.
C15_InitPanic ==
    fn_pc = "done" =>
        LET cols == Ceil(fn_in.w, fn_in.tw)
            rows == Ceil(fn_in.h, fn_in.th)
        IN  /\ op.name = "panic" <=> BufferLen(bam) < Ceil(cols, 32) * rows
            /\ op.name = "panic" =>
                  /\ op.r = BAM_PANIC_CODE_DIRTY_BUFFER_TOO_SMALL
                  /\ bam.dirty_buffer = fn_out
            /\ op.name # "panic" =>
                  /\ \A c \in 0 .. (cols - 1), r \in 0 .. (rows - 1) :
                        (31 - (c % 32)) \in bam.dirty_buffer[r * Ceil(cols, 32) + (c \div 32)]
                  /\ bam.widgets = << >> /\ bam.pressed_widget = NULL
                  /\ bam.run_flag = NULL /\ ~bam.quit_flag

\* bam_init returned for 33 tile columns by 3 rows with exactly the 6 words needed,
\* on a clean buffer and a context memory full of junk
C15_Witness ==
    /\ fn_pc = "done" /\ op.name = "init" /\ fn_in.w = 66 /\ BufferLen(bam) = 6
    /\ \A i \in DOMAIN fn_out : fn_out[i] = {}
    /\ Cardinality(DirtyTiles(bam)) = 99 /\ ~bam.quit_flag /\ bam.run_flag = NULL

\* bam_delete_widgets leaves the pool empty, the pressed-widget pointer null and
\* every display tile dirty; the bam_add_widget that follows returns handle 0
C16_Step ==
    /\ op'.name = "delete" =>
          /\ bam'.widgets = << >>
          /\ bam'.pressed_widget = NULL
          /\ DirtyTiles(bam') = DisplayTiles(bam')
    /\ (op.name = "delete" /\ op'.name = "add") =>
          op'.widget = 0 /\ Len(bam'.widgets) = 1

\* C16: bulk delete, from any state (also while a widget is pressed, and from a
\* widget callback inside a running loop), leaves the pool empty, the pressed-widget
\* pointer null and every tile of the display dirty; the next Add returns handle 0.
C16_BulkDelete == [][C16_Step]_vars

\* the callback of the second widget, running inside a loop, deleted the widgets
\* and added one: it got handle 0
C16_Witness ==
    /\ op.name = "add" /\ op.widget = 0 /\ Len(bam.widgets) = 1
    /\ Top.kind = "cb" /\ Top.widget = 1 /\ bam.pressed_widget = NULL

\* ------------------------------------------------------------------ layout

\* the loops of bam_layout_grid (lines 954-969) from cell (col, row) on, the next
\* widget going to (x, y).  st holds the context, the handles written to the output
\* array so far and whether bam_add_widget panicked; g the values fixed before the
\* loops.
RECURSIVE LayoutFrom(_, _, _, _, _, _)
LayoutFrom(st, g, row, col, x, y) ==
    IF row >= g.n_rows THEN st
    ELSE IF col >= g.n_cols
    THEN LayoutFrom(st, g, row + 1, 0, g.x1, y + g.height + g.v_spacing)
    ELSE IF Len(st.handles) >= g.n_handles THEN st
    ELSE IF PoolFull(st.bam) THEN [st EXCEPT !.panic = TRUE]
    ELSE LayoutFrom(
            [bam |-> bam_add_widget(st.bam, x, y, g.width, g.height, g.style, "NULL", g.enabled),
             handles |-> Append(st.handles, Len(st.bam.widgets)),
             panic |-> FALSE],
            g, row, col + 1, x + g.width + g.h_spacing, y)

\* bam_layout_grid from line 946 on, the spacings being those of lines 942-943
LayoutCells(b, n_cols, n_rows, bounds, h_spacing, v_spacing, style, enabled, n_handles) ==
    LayoutFrom([bam |-> b, handles |-> << >>, panic |-> FALSE],
               [n_cols |-> n_cols, n_rows |-> n_rows, x1 |-> bounds.x1,
                width |-> CDiv(rect_width(bounds) - (h_spacing * (n_cols - 1)), n_cols),
                height |-> CDiv(rect_height(bounds) - (v_spacing * (n_rows - 1)), n_rows),
                h_spacing |-> h_spacing, v_spacing |-> v_spacing,
                style |-> style, enabled |-> enabled, n_handles |-> n_handles],
               0, 0, bounds.x1, bounds.y1)

\* a plausible slip: a negative spacing is not clamped to zero
bam_layout_grid_noclamp(b, n_cols, n_rows, bounds, h_spacing, v_spacing, style, enabled, n_handles) ==
    IF n_cols <= 0 \/ n_rows <= 0 \/ rect_empty(bounds)
    THEN [bam |-> b, handles |-> << >>, panic |-> FALSE]
    ELSE LayoutCells(b, n_cols, n_rows, bounds, h_spacing, v_spacing, style, enabled, n_handles)

\* bam_layout_grid: the context, the handles written to handles[] (of n_handles
\* elements) and whether the call ended in the panic of bam_add_widget
bam_layout_grid(b, n_cols, n_rows, bounds, h_spacing, v_spacing, style, enabled, n_handles) ==
    IF n_cols <= 0 \/ n_rows <= 0 \/ rect_empty(bounds)
    THEN [bam |-> b, handles |-> << >>, panic |-> FALSE]
    ELSE LayoutCells(b, n_cols, n_rows, bounds, max_int(0, h_spacing), max_int(0, v_spacing),
                     style, enabled, n_handles)

\* ------------------------------------------------------------------ SpecGrid: layout under test

\* the context the grid is laid out in: a 100x60 display, a pool of `capacity`
\* widgets that holds `n` of them
GridContext(capacity, n) ==
    LET b == bam_init(ConstBuffer(BAM_DIRTY_BUFFER_SIZE(100, 60, 32, 32), {}), capacity,
                      100, 60, 32, 32)
    IN  IF n = 0 THEN b ELSE bam_add_widget(b, 90, 50, 10, 10, "alt", TextA, TRUE)

\* bounds handed to bam_layout_grid: the scenario's, a small one off the origin, one
\* of no width, an inverted one
GridBounds == { Rect(0, 0, 100, 60), Rect(5, 7, 12, 10), Rect(3, 3, 3, 9), Rect(9, 0, 4, 6) }

InitGrid ==
    /\ \E capacity \in {4, 8}, n \in 0 .. 1 : bam = GridContext(capacity, n)
    /\ fn_in \in [n_cols : -1 .. 3, n_rows : 0 .. 2, bounds : GridBounds,
                  h_spacing : {-2, 0, 10}, v_spacing : {-1, 10},
                  style : {"NULL"}, enabled : {TRUE}, n_handles : {0, 2, 6, 7}]
    /\ fn_out = << >>
    /\ fn_pc = "call"
    /\ stack = << >>
    /\ op = NoOp
    /\ host_log = << >>

\* the outcome of the call of bam_layout_grid that fn_in describes
GridOutcome ==
    bam_layout_grid(bam, fn_in.n_cols, fn_in.n_rows, fn_in.bounds, fn_in.h_spacing,
                    fn_in.v_spacing, fn_in.style, fn_in.enabled, fn_in.n_handles)

\* bam_layout_grid returns; fn_out keeps the context it was called on and the
\* handles it wrote
GridReturns ==
    /\ fn_pc = "call" /\ ~GridOutcome.panic
    /\ bam' = GridOutcome.bam
    /\ fn_out' = [bam |-> bam, handles |-> GridOutcome.handles]
    /\ op' = Op("layout_grid", NULL, 0, 0, 0, NoFrame)
    /\ fn_pc' = "done"
    /\ UNCHANGED <<stack, host_log, fn_in>>

\* bam_layout_grid ends in the panic of bam_add_widget
GridPanics ==
    /\ fn_pc = "call" /\ GridOutcome.panic
    /\ bam' = GridOutcome.bam
    /\ fn_out' = [bam |-> bam, handles |-> GridOutcome.handles]
    /\ op' = Op("panic", NULL, 0, 0, BAM_PANIC_CODE_OUT_OF_MEMORY, NoFrame)
    /\ fn_pc' = "done"
    /\ UNCHANGED <<stack, host_log, fn_in>>

NextGrid == GridReturns \/ GridPanics

SpecGrid == InitGrid /\ [][NextGrid]_vars

\* integer division as C does it, stated on the quotient: the q of least magnitude
\* with |a - q * b| < b
Quot(a, b) == CHOOSE q \in -(a * a + 1) .. (a * a + 1) :
                  /\ (a >= 0 => (q * b <= a /\ a < (q + 1) * b))
                  /\ (a < 0 => ((q - 1) * b < a /\ a <= q * b))

\* the widgets bam_layout_grid appended to the pool, in the order of their handles
GridAdded == SubSeq(bam.widgets, Len(fn_out.bam.widgets) + 1, Len(bam.widgets))

RectInputs ==
    { Rect(x1, y[1], x2, y[2]) :
        x1 \in 0 .. 2, x2 \in 0 .. 2, y \in { <<0, 2>>, <<1, 2>>, <<1, 1>>, <<2, 0>> } }

\* the points tried: the coordinate range and a margin around it
RectPoints == (-1 .. 3) \X (-1 .. 3)

InitRect ==
    /\ fn_in \in [a : RectInputs, b : RectInputs, c : RectInputs]
    /\ fn_out = << >>
    /\ fn_pc = "call"
    /\ bam = MainContext
    /\ stack = << >>
    /\ op = NoOp
    /\ host_log = << >>

\* rect_intersect is applied to a with itself, to a with b, to a with b and then c,
\* to a with c and then b
Intersect ==
    /\ fn_pc = "call"
    /\ fn_out' = [aa |-> rect_intersect(fn_in.a, fn_in.a),
                  ab |-> rect_intersect(fn_in.a, fn_in.b),
                  abc |-> rect_intersect(rect_intersect(fn_in.a, fn_in.b), fn_in.c),
                  acb |-> rect_intersect(rect_intersect(fn_in.a, fn_in.c), fn_in.b)]
    /\ fn_pc' = "done"
    /\ UNCHANGED <<bam, stack, op, host_log, fn_in>>

NextRect == Intersect

SpecRect == InitRect /\ [][NextRect]_vars

\* p lies in rectangle r, both axes half-open
HalfOpen(r, p) == r.x1 <= p[1] /\ p[1] < r.x2 /\ r.y1 <= p[2] /\ p[2] < r.y2

\* C18: intersect(A, A) = A for every non-empty A, and intersecting A with B and
\* then the result with C gives a rectangle that contains (half-open, as
\* contains-point tells) exactly the points contained in all of A, B and C,
\* whatever the order in which B and C are applied.
C18_Intersect ==
    fn_pc = "done" =>
        /\ ~IsEmpty(fn_in.a) => fn_out.aa = fn_in.a
        /\ \A p \in RectPoints :
              LET common == HalfOpen(fn_in.a, p) /\ HalfOpen(fn_in.b, p) /\ HalfOpen(fn_in.c, p)
              IN  /\ rect_contains_point(fn_out.abc, p[1], p[2]) <=> common
                  /\ rect_contains_point(fn_out.acb, p[1], p[2]) <=> common
                  /\ HalfOpen(fn_out.abc, p) <=> common

\* three rectangles with the one pixel (1, 1) in common, intersected in both orders
C18_Witness ==
    /\ fn_pc = "done"
    /\ fn_in = [a |-> Rect(0, 0, 2, 2), b |-> Rect(1, 0, 2, 2), c |-> Rect(0, 1, 2, 2)]
    /\ fn_out.abc = Rect(1, 1, 2, 2) /\ fn_out.acb = Rect(1, 1, 2, 2)
    /\ fn_out.aa = Rect(0, 0, 2, 2)

\* x1 <= x2 and y1 <= y2
WellFormed(r) == r.x1 <= r.x2 /\ r.y1 <= r.y2

\* rect_intersect(a, b) has run on well-formed rectangles a and b
IntersectedWellFormed == fn_pc = "done" /\ WellFormed(fn_in.a) /\ WellFormed(fn_in.b)

\* C30: for all well-formed rectangles A and B, disjoint ones included, the result
\* of intersect(A, B) is well formed: x1 <= x2 and y1 <= y2, never inverted
C30_IntersectWellFormed_Original == IntersectedWellFormed => WellFormed(fn_out.ab)

\* C30: for well-formed A and B the result of intersect(A, B) is inverted on an axis
\* exactly when A begins past the end of B on that axis; it is well formed when A
\* begins at or before the end of B on both axes, and an inverted result is empty
C30_IntersectWellFormed ==
    IntersectedWellFormed =>
        /\ fn_out.ab.x1 <= fn_out.ab.x2 <=> fn_in.a.x1 <= fn_in.b.x2
        /\ fn_out.ab.y1 <= fn_out.ab.y2 <=> fn_in.a.y1 <= fn_in.b.y2
        /\ ~WellFormed(fn_out.ab) => rect_empty(fn_out.ab)

\* C30: A lies left of B without touching it, and the result is the well-formed
\* empty rectangle at the begin of B
C30_Witness ==
    /\ IntersectedWellFormed
    /\ fn_in.a = Rect(0, 0, 1, 2) /\ fn_in.b = Rect(2, 0, 2, 2)
    /\ fn_out.ab = Rect(2, 0, 2, 2)

\* A lies right of B: the result is inverted
C30_WitnessInverted ==
    /\ IntersectedWellFormed
    /\ fn_in.a = Rect(2, 0, 2, 2) /\ fn_in.b = Rect(0, 0, 1, 2)
    /\ fn_out.ab = Rect(2, 0, 1, 2)

\* ------------------------------------------------------------------ editors: common

\* A text buffer of the caller (char buffer[buffer_size]) as the memory a text
\* pointer to it sees: its bytes, and the three bytes that follow it in memory.
BufferMem(buffer) == buffer \o <<0, 0, 0>>

\* the text of a key: a string literal of one character (code 0: the literal ""),
\* with the bytes that follow its NUL
KeyText(code) == IF code = 0 THEN <<0, 0, 0, 0, 0>> ELSE StrMem(<< code >>, 0)

\* memcpy(buffer + at, bytes, Len(bytes))
WriteBytes(buffer, at, bytes) ==
    [i \in 1 .. Len(buffer) |->
        IF at < i /\ i <= at + Len(bytes) THEN bytes[i - at] ELSE buffer[i]]

\* the editor style of the application (bam_editor_style_t)
EditorStyle ==
    [char_key_style |-> "NULL", num_key_style |-> "NULL", edit_key_style |-> "alt",
     accept_key_style |-> "alt", cancel_key_style |-> "alt", field_style |-> "NULL",
     shift_text |-> KeyText(94), backspace_text |-> KeyText(60), clear_text |-> KeyText(120),
     accept_text |-> KeyText(65), cancel_text |-> KeyText(67), space_text |-> KeyText(95),
     spacing |-> 0]

\* the editor acts on the context and on its own bam_edit_*_ctx_t, a local of the
\* editor function: e = [bam, ctx].  The field widget's text pointer is the buffer,
\* so the widget shows the buffer as it is: the model copies it after each write.
FieldShows(e) ==
    [e EXCEPT !.bam.widgets[e.ctx.field_widget + 1].text = BufferMem(e.ctx.buffer)]

\* handle of key i (ctx->key_widgets[i])
Key(ctx, i) == ctx.key_widgets[i + 1]

\* ------------------------------------------------------------------ string editor

\* bam_edit_string_key_t
BAM_EDIT_STRING_KEY_SHIFT == 30
BAM_EDIT_STRING_KEY_BACKSPACE == 39
BAM_EDIT_STRING_KEY_CANCEL == 40
BAM_EDIT_STRING_KEY_CLEAR == 41
BAM_EDIT_STRING_KEY_SPACE == 42
BAM_EDIT_STRING_KEY_UNUSED_BEGIN == 43
BAM_EDIT_STRING_KEY_UNUSED_END == 48
BAM_EDIT_STRING_KEY_ACCEPT == 49

\* bam_edit_string_metadata_t
BAM_EDIT_STRING_METADATA_CHAR == 0
BAM_EDIT_STRING_METADATA_SHIFT == 1
BAM_EDIT_STRING_METADATA_BACKSPACE == 2
BAM_EDIT_STRING_METADATA_CANCEL == 3
BAM_EDIT_STRING_METADATA_CLEAR == 4
BAM_EDIT_STRING_METADATA_ACCEPT == 5
BAM_EDIT_STRING_METADATA_SPACE == 6

\* the character codes of the key texts, 0 for ""
EDIT_STRING_KEYPAD_TEXT_UPPER ==
    << 33, 64, 35, 36, 37, 94, 38, 42, 40, 41,
       81, 87, 69, 82, 84, 89, 85, 73, 79, 80,
       65, 83, 68, 70, 71, 72, 74, 75, 76, 46,
       0, 90, 88, 67, 86, 66, 78, 77, 44, 0,
       0, 0, 0, 0, 0, 0, 0, 0, 0, 0 >>

EDIT_STRING_KEYPAD_TEXT_LOWER ==
    << 49, 50, 51, 52, 53, 54, 55, 56, 57, 48,
       113, 119, 101, 114, 116, 121, 117, 105, 111, 112,
       97, 115, 100, 102, 103, 104, 106, 107, 108, 46,
       0, 122, 120, 99, 118, 98, 110, 109, 44, 0,
       0, 0, 0, 0, 0, 0, 0, 0, 0, 0 >>

\* the loop of edit_string_modify_char_keys from key i on
RECURSIVE ModifyCharKeysFrom(_, _, _, _)
ModifyCharKeysFrom(b, ctx, text, i) ==
    IF i >= 50 THEN b
    ELSE IF bam_get_widget_metadata(b, Key(ctx, i)) = BAM_EDIT_STRING_METADATA_CHAR
    THEN ModifyCharKeysFrom(bam_set_widget_text(b, Key(ctx, i), KeyText(text[i + 1])),
                            ctx, text, i + 1)
    ELSE ModifyCharKeysFrom(b, ctx, text, i + 1)

edit_string_modify_char_keys(e) ==
    [e EXCEPT !.bam = ModifyCharKeysFrom(e.bam, e.ctx,
                        IF e.ctx.shifted THEN EDIT_STRING_KEYPAD_TEXT_UPPER
                                         ELSE EDIT_STRING_KEYPAD_TEXT_LOWER, 0)]

\* the loop of edit_string_enforce_format (lines 1326-1330) from key i on
RECURSIVE EnableCharKeysFrom(_, _, _, _)
EnableCharKeysFrom(b, ctx, char_keys_enabled, i) ==
    IF i >= 50 THEN b
    ELSE IF bam_get_widget_metadata(b, Key(ctx, i)) = BAM_EDIT_STRING_METADATA_CHAR
    THEN EnableCharKeysFrom(bam_set_widget_enabled(b, Key(ctx, i), char_keys_enabled),
                            ctx, char_keys_enabled, i + 1)
    ELSE EnableCharKeysFrom(b, ctx, char_keys_enabled, i + 1)

edit_string_enforce_format(e) ==
    LET ctx == e.ctx
        length == ctx.buffer_ptr
        space == ctx.buffer_size - 1 - ctx.buffer_ptr
        key0 == bam_get_widget_enabled(e.bam, Key(ctx, 0))
        char_keys_changed == (space = 0 /\ key0) \/ (space > 0 /\ ~key0)
        char_keys_enabled == ~(space = 0 /\ key0)
        b1 == IF char_keys_changed
              THEN bam_set_widget_enabled(
                      EnableCharKeysFrom(e.bam, ctx, char_keys_enabled, 0),
                      Key(ctx, BAM_EDIT_STRING_KEY_SPACE), char_keys_enabled)
              ELSE e.bam
        b2 == bam_set_widget_enabled(b1, Key(ctx, BAM_EDIT_STRING_KEY_BACKSPACE), length > 0)
        b3 == bam_set_widget_enabled(b2, Key(ctx, BAM_EDIT_STRING_KEY_CLEAR), length > 0)
        b4 == bam_set_widget_enabled(b3, Key(ctx, BAM_EDIT_STRING_KEY_ACCEPT),
                                     length > 0 \/ ctx.allow_empty)
    IN  [e EXCEPT !.bam = bam_force_widget_redraw(b4, ctx.field_widget)]

\* a plausible slip: the space left is counted without the byte of the NUL
edit_string_append_over(e, str) ==
    LET str_len == strlen(str)
        space == e.ctx.buffer_size - e.ctx.buffer_ptr
    IN  IF space >= str_len
        THEN edit_string_enforce_format(FieldShows(
                [e EXCEPT !.ctx.buffer = WriteBytes(@, e.ctx.buffer_ptr,
                                                    SubSeq(str, 1, str_len) \o <<0>>),
                          !.ctx.buffer_ptr = @ + str_len]))
        ELSE e

\* edit_string_append; str is the memory of a NUL-terminated text
edit_string_append(e, str) ==
    LET str_len == strlen(str)
        space == e.ctx.buffer_size - 1 - e.ctx.buffer_ptr
    IN  IF space >= str_len
        THEN edit_string_enforce_format(FieldShows(
                [e EXCEPT !.ctx.buffer = WriteBytes(@, e.ctx.buffer_ptr,
                                                    SubSeq(str, 1, str_len) \o <<0>>),
                          !.ctx.buffer_ptr = @ + str_len]))
        ELSE e

\* the loop of edit_string_truncate (lines 1357-1363): where buffer_ptr ends
RECURSIVE TruncateLoop(_, _)
TruncateLoop(buffer, buffer_ptr) ==
    IF buffer_ptr > 0
    THEN IF (buffer[buffer_ptr] \div 64) % 4 # 2
         THEN buffer_ptr - 1
         ELSE TruncateLoop(buffer, buffer_ptr - 1)
    ELSE buffer_ptr

\* a plausible slip: Backspace takes one byte, as in the number editor
edit_string_truncate_byte(e) ==
    LET buffer_ptr == IF e.ctx.buffer_ptr > 0 THEN e.ctx.buffer_ptr - 1 ELSE 0
    IN  edit_string_enforce_format(FieldShows(
            [e EXCEPT !.ctx.buffer = WriteBytes(@, buffer_ptr, <<0>>),
                      !.ctx.buffer_ptr = buffer_ptr]))

edit_string_truncate(e) ==
    LET buffer_ptr == TruncateLoop(e.ctx.buffer, e.ctx.buffer_ptr)
    IN  edit_string_enforce_format(FieldShows(
            [e EXCEPT !.ctx.buffer = WriteBytes(@, buffer_ptr, <<0>>),
                      !.ctx.buffer_ptr = buffer_ptr]))

edit_string_clear(e) ==
    edit_string_enforce_format(FieldShows(
        [e EXCEPT !.ctx.buffer = WriteBytes(@, 0, <<0>>), !.ctx.buffer_ptr = 0]))

\* edit_string_key_func, the callback of every key: the machine and the editor
\* context after it ran for `widget`
edit_string_key_func(m, ctx, widget) ==
    LET metadata == bam_get_widget_metadata(m.bam, widget)
        e == [bam |-> m.bam, ctx |-> ctx]
        edited(e2) == [m |-> [m EXCEPT !.bam = e2.bam], ctx |-> e2.ctx]
    IN  CASE metadata = BAM_EDIT_STRING_METADATA_CHAR ->
                edited(edit_string_append(e, widget_from_handle(m.bam, widget).text))
          [] metadata = BAM_EDIT_STRING_METADATA_SHIFT ->
                edited(edit_string_modify_char_keys([e EXCEPT !.ctx.shifted = ~@]))
          [] metadata = BAM_EDIT_STRING_METADATA_BACKSPACE ->
                edited(edit_string_truncate(e))
          [] metadata = BAM_EDIT_STRING_METADATA_CANCEL ->
                [m |-> bam_stop(m, 0), ctx |-> ctx]
          [] metadata = BAM_EDIT_STRING_METADATA_CLEAR ->
                edited(edit_string_clear(e))
          [] metadata = BAM_EDIT_STRING_METADATA_ACCEPT ->
                [m |-> bam_stop(m, 1), ctx |-> ctx]
          [] metadata = BAM_EDIT_STRING_METADATA_SPACE ->
                edited(edit_string_append(e, KeyText(32)))
          [] OTHER -> [m |-> m, ctx |-> ctx]

\* bam_edit_string, lines 1469-1472: every key gets the metadata of a character key
\* and the key function as its callback (the user pointer is &ctx, shown as 0:
\* there is one editor context at a time)
StringKeysInit(b, ctx) ==
    [b EXCEPT !.widgets =
        [h \in DOMAIN b.widgets |->
            IF \E i \in 0 .. 49 : Key(ctx, i) = h - 1
            THEN [b.widgets[h] EXCEPT !.metadata = BAM_EDIT_STRING_METADATA_CHAR,
                                      !.callback = "edit_string_key_func",
                                      !.user_data = 0]
            ELSE b.widgets[h]]]

\* bam_edit_string, lines 1475-1477: the style of the top row, from key i on
RECURSIVE NumKeyStyleFrom(_, _, _, _)
NumKeyStyleFrom(b, ctx, style, i) ==
    IF i >= 10 THEN b
    ELSE NumKeyStyleFrom(bam_set_widget_style(b, Key(ctx, i), style), ctx, style, i + 1)

\* bam_edit_string, lines 1530-1532: the unused keys get the empty rectangle
RECURSIVE UnusedKeysFrom(_, _, _)
UnusedKeysFrom(b, ctx, i) ==
    IF i > BAM_EDIT_STRING_KEY_UNUSED_END THEN b
    ELSE UnusedKeysFrom(bam_set_widget_bounds(b, Key(ctx, i), rect_init_empty), ctx, i + 1)

\* style, text and metadata of one special key of an editor
SpecialKey(b, key, style, text, metadata) ==
    bam_set_widget_metadata(
        bam_set_widget_text(bam_set_widget_style(b, key, style), key, text),
        key, metadata)

\* bam_edit_string, lines 1434-1466: the buffer is terminated, the scene cleared, the
\* field and the grid of 50 keys created.  The result holds the context, the editor
\* context and whether bam_add_widget panicked (the pool is too small).  buffer is the
\* caller's (buffer_size bytes); the keypad bounds are not empty on the displays
\* modelled, so the grid has all its keys.
EditStringScene(b, buffer, buffer_size, allow_empty, editor_style) ==
    LET terminated == WriteBytes(buffer, buffer_size - 1, <<0>>)
        b1 == bam_delete_widgets(b)
        style == widget_get_style(b1, editor_style.field_style)
        font_metrics == get_font_metrics(StyleOf(style).font)
        spacing == editor_style.spacing
        field_height == font_metrics.line_height + (2 * StyleOf(style).v_padding)
        b2 == bam_add_widget(b1, 0, 0, b1.disp_width, field_height, style,
                             BufferMem(terminated), FALSE)
        grid == bam_layout_grid(b2, 10, 5,
                                Rect(0, field_height + spacing, b1.disp_width, b1.disp_height),
                                spacing, spacing,
                                widget_get_style(b2, editor_style.char_key_style), TRUE, 50)
        ctx == [field_widget |-> Len(b1.widgets),
                key_widgets  |-> IF PoolFull(b1) THEN << >> ELSE grid.handles,
                buffer       |-> terminated,
                buffer_ptr   |-> strlen(terminated),
                buffer_size  |-> buffer_size,
                allow_empty  |-> allow_empty,
                shifted      |-> FALSE]
    IN  IF PoolFull(b1) THEN [bam |-> b1, ctx |-> ctx, panic |-> TRUE]
        ELSE [bam |-> grid.bam, ctx |-> ctx, panic |-> grid.panic]

\* bam_edit_string, lines 1469-1479: the keys become character keys
EditStringCharKeys(s, editor_style) ==
    IF s.panic THEN s
    ELSE [s EXCEPT !.bam =
            edit_string_modify_char_keys(
                [bam |-> NumKeyStyleFrom(StringKeysInit(s.bam, s.ctx), s.ctx,
                                         editor_style.num_key_style, 0),
                 ctx |-> s.ctx]).bam]

\* bam_edit_string, lines 1482-1509: Shift, Backspace, Cancel, Clear and Accept
EditStringEditKeys(s, editor_style) ==
    LET ctx == s.ctx
        b6 == SpecialKey(s.bam, Key(ctx, BAM_EDIT_STRING_KEY_SHIFT), editor_style.edit_key_style,
                         editor_style.shift_text, BAM_EDIT_STRING_METADATA_SHIFT)
        b7 == SpecialKey(b6, Key(ctx, BAM_EDIT_STRING_KEY_BACKSPACE), editor_style.edit_key_style,
                         editor_style.backspace_text, BAM_EDIT_STRING_METADATA_BACKSPACE)
        b8 == SpecialKey(b7, Key(ctx, BAM_EDIT_STRING_KEY_CANCEL), editor_style.cancel_key_style,
                         editor_style.cancel_text, BAM_EDIT_STRING_METADATA_CANCEL)
        b9 == SpecialKey(b8, Key(ctx, BAM_EDIT_STRING_KEY_CLEAR), editor_style.edit_key_style,
                         editor_style.clear_text, BAM_EDIT_STRING_METADATA_CLEAR)
    IN  IF s.panic THEN s
        ELSE [s EXCEPT !.bam =
                SpecialKey(b9, Key(ctx, BAM_EDIT_STRING_KEY_ACCEPT),
                           editor_style.accept_key_style, editor_style.accept_text,
                           BAM_EDIT_STRING_METADATA_ACCEPT)]

\* bam_edit_string, lines 1512-1532: the Space key, stretched over the unused keys
EditStringSpaceKey(s, editor_style) ==
    LET ctx == s.ctx
        b11 == SpecialKey(s.bam, Key(ctx, BAM_EDIT_STRING_KEY_SPACE), editor_style.char_key_style,
                          editor_style.space_text, BAM_EDIT_STRING_METADATA_SPACE)
        first == widget_from_handle(b11, Key(ctx, BAM_EDIT_STRING_KEY_SPACE)).rect
        last == widget_from_handle(b11, Key(ctx, BAM_EDIT_STRING_KEY_UNUSED_END)).rect
        b12 == bam_set_widget_bounds(b11, Key(ctx, BAM_EDIT_STRING_KEY_SPACE),
                                     Rect(first.x1, first.y1, last.x2, last.y2))
    IN  IF s.panic THEN s
        ELSE [s EXCEPT !.bam = UnusedKeysFrom(b12, ctx, BAM_EDIT_STRING_KEY_UNUSED_BEGIN)]

\* bam_edit_string up to its call of bam_start (lines 1434-1532): the scene and the
\* editor context, or the panic of bam_add_widget
bam_edit_string(b, buffer, buffer_size, allow_empty, editor_style) ==
    EditStringSpaceKey(
        EditStringEditKeys(
            EditStringCharKeys(
                EditStringScene(b, buffer, buffer_size, allow_empty, editor_style),
                editor_style),
            editor_style),
        editor_style)

\* ------------------------------------------------------------------ editors: the program

\* the frame of an editor function (bam_edit_string, edit_number) while its event
\* loop runs
EditFrame == [NoFrame EXCEPT !.kind = "edit"]

\* bam_start called by an editor whose scene is b: the editor's frame and the frame
\* of its loop are pushed (lines 807-820)
EditorStarts(b) ==
    /\ bam' = [b EXCEPT !.quit_flag = IF b.run_flag = NULL THEN FALSE ELSE @,
                        !.run_flag = Len(stack) + 2]
    /\ stack' = stack \o << EditFrame, LoopFrame(b.run_flag) >>
    /\ host_log' = << >>

\* the callback the event loop entered is `callback`: its frame is on top
InKeyFunc(callback) ==
    /\ ~Halted /\ Top.kind = "cb"
    /\ widget_from_handle(bam, Top.widget).callback = callback

\* the stack after the key callback returned; stopped tells that it called bam_stop(r)
KeyFuncReturns(stk, stopped, r) ==
    SubSeq(IF stopped THEN NoteStop(stk, bam.run_flag, r, FALSE, TRUE) ELSE stk,
           1, Len(stk) - 1)

\* ------------------------------------------------------------------ SpecString: the string editor

\* the widget pool holds the field and the 50 keys; on a display of 10x6 pixels (one
\* tile) the field is the top line and key i the pixel (i % 10, 1 + i \div 10)
StringContext == bam_init(ConstBuffer(BAM_DIRTY_BUFFER_SIZE(10, 6, 16, 8), {}), 51, 10, 6, 16, 8)

KeyPoint(i) == << i % 10, 1 + (i \div 10) >>

\* the keys the user touches: 'a', Backspace, Accept
StringKeys == { 20, BAM_EDIT_STRING_KEY_BACKSPACE, BAM_EDIT_STRING_KEY_ACCEPT }

\* UTF-8 encoded characters of 1, 2, 3 and 4 bytes: A, e acute, the euro sign, U+1F600
Utf8Samples == { <<65>>, <<195, 169>>, <<226, 130, 172>>, <<240, 159, 152, 128>> }

\* the texts the caller hands in: up to two characters
StringTexts ==
    { << >> } \cup Utf8Samples \cup { c \o d : c \in Utf8Samples, d \in Utf8Samples }

\* the caller's buffer of buffer_size bytes holding text: the text, its NUL, and
\* continuation bytes (0xBF) left over from earlier in what follows
CallerBuffer(text, buffer_size) ==
    [i \in 1 .. buffer_size |->
        IF i <= Len(text) THEN text[i] ELSE IF i = Len(text) + 1 THEN 0 ELSE 191]

\* main calls bam_edit_string(buffer, buffer_size, allow_empty) on an empty scene
InitString ==
    /\ bam = StringContext
    /\ \E text \in StringTexts, buffer_size \in {7}, allow_empty \in {FALSE} :
          fn_in = [buffer |-> CallerBuffer(text, buffer_size), buffer_size |-> buffer_size,
                   allow_empty |-> allow_empty, ctx |-> << >>]
    /\ fn_out = << >>
    /\ fn_pc = "call"
    /\ stack = << >>
    /\ op = NoOp
    /\ host_log = << >>

\* bam_edit_string up to the entry of its event loop
EditStringCall ==
    /\ fn_pc = "call" /\ AppRunning
    /\ LET e == bam_edit_string(bam, fn_in.buffer, fn_in.buffer_size, fn_in.allow_empty,
                                EditorStyle)
       IN  /\ ~e.panic
           /\ EditorStarts(e.bam)
           /\ fn_in' = [fn_in EXCEPT !.ctx = e.ctx]
    /\ op' = Op("edit_string_call", NULL, 0, 0, 0, NoFrame)
    /\ fn_pc' = "edit"
    /\ UNCHANGED fn_out

GetEventString ==
    \E event \in Events({ KeyPoint(i) : i \in StringKeys }) : LoopEvent(event, TRUE)

\* edit_string_key_func runs for the key that was triggered and returns to the loop;
\* fn_out keeps the editor context the key found
EditStringKey ==
    /\ InKeyFunc("edit_string_key_func")
    /\ LET r == edit_string_key_func(Machine(bam, stack), fn_in.ctx, Top.widget)
           metadata == bam_get_widget_metadata(bam, Top.widget)
       IN  /\ bam' = r.m.bam
           /\ stack' = KeyFuncReturns(r.m.stack,
                            metadata \in {BAM_EDIT_STRING_METADATA_CANCEL,
                                          BAM_EDIT_STRING_METADATA_ACCEPT},
                            r.m.bam.run_result)
           /\ fn_in' = [fn_in EXCEPT !.ctx = r.ctx, !.buffer = r.ctx.buffer]
           /\ fn_out' = fn_in.ctx
           /\ op' = Op("key", Top.widget, 0, 0, metadata, NoFrame)
    /\ host_log' = << >>
    /\ UNCHANGED fn_pc

\* bam_edit_string returns what its event loop returned, as a bool
EditStringReturn ==
    /\ ~Halted /\ Top.kind = "edit" /\ fn_pc = "edit" /\ op.name = "return"
    /\ stack' = SubSeq(stack, 1, Len(stack) - 1)
    /\ op' = Op("edit_string", NULL, 0, 0, IF op.r # 0 THEN 1 ELSE 0, op.frame)
    /\ fn_pc' = "done"
    /\ host_log' = << >>
    /\ UNCHANGED <<bam, fn_in, fn_out>>

NextString ==
    \/ EditStringCall \/ LoopClean \/ GetEventString \/ LoopCheck \/ EditStringKey
    \/ EditStringReturn

SpecString == InitString /\ [][NextString]_vars

\* ------------------------------------------------------------------ string editor: claims

\* the text a buffer holds: its bytes before the first NUL
TextOf(buffer) == SubSeq(buffer, 1, strlen(buffer))

\* the length of the UTF-8 sequence a lead byte announces, 0 if the byte is no lead
Utf8Length(byte) ==
    IF byte < 128 THEN 1
    ELSE IF byte \in 194 .. 223 THEN 2
    ELSE IF byte \in 224 .. 239 THEN 3
    ELSE IF byte \in 240 .. 244 THEN 4
    ELSE 0

\* bytes is a sequence of well-formed UTF-8 characters: each lead byte is followed by
\* as many continuation bytes (10xxxxxx) as it announces
RECURSIVE IsUtf8(_)
IsUtf8(bytes) ==
    IF bytes = << >> THEN TRUE
    ELSE LET n == Utf8Length(bytes[1])
         IN  /\ n > 0 /\ n <= Len(bytes)
             /\ \A k \in 2 .. n : bytes[k] \in 128 .. 191
             /\ IsUtf8(SubSeq(bytes, n + 1, Len(bytes)))

\* well-formed UTF-8 bytes without their last character
RECURSIVE WithoutLastChar(_)
WithoutLastChar(bytes) ==
    IF bytes = << >> THEN << >>
    ELSE LET n == Utf8Length(bytes[1])
         IN  IF n >= Len(bytes) THEN << >>
             ELSE SubSeq(bytes, 1, n) \o WithoutLastChar(SubSeq(bytes, n + 1, Len(bytes)))

\* the key function just ran for the Backspace key of the string editor
BackspaceRan == op.name = "key" /\ op.r = BAM_EDIT_STRING_METADATA_BACKSPACE

\* C19: in the string editor, Backspace on a buffer holding valid UTF-8 removes exactly
\* the last encoded character, continuation bytes and lead byte: what remains is the
\* text without that character, is valid UTF-8 and is NUL-terminated where the edit
\* cursor stands; Backspace on an empty buffer leaves it empty.
C19_BackspaceUtf8 ==
    (BackspaceRan /\ IsUtf8(TextOf(fn_out.buffer))) =>
        /\ TextOf(fn_in.ctx.buffer) = WithoutLastChar(TextOf(fn_out.buffer))
        /\ IsUtf8(TextOf(fn_in.ctx.buffer))
        /\ fn_in.ctx.buffer[fn_in.ctx.buffer_ptr + 1] = 0
        /\ fn_in.ctx.buffer_ptr = Len(TextOf(fn_in.ctx.buffer))
        /\ TextOf(fn_out.buffer) = << >> => TextOf(fn_in.ctx.buffer) = << >>
        /\ widget_from_handle(bam, fn_in.ctx.field_widget).text = BufferMem(fn_in.ctx.buffer)

\* Backspace took the four bytes of U+1F600 from "A" followed by U+1F600
C19_Witness ==
    /\ BackspaceRan
    /\ TextOf(fn_out.buffer) = <<65, 240, 159, 152, 128>>
    /\ TextOf(fn_in.ctx.buffer) = <<65>>

\* ------------------------------------------------------------------ number editor

\* the buffer of the number editors
BAM_EDIT_NUMBER_BUFFER_SIZE == 16

\* bam_edit_number_key_t
BAM_EDIT_NUMBER_KEY_BACKSPACE == 3
BAM_EDIT_NUMBER_KEY_CLEAR == 7
BAM_EDIT_NUMBER_KEY_ACCEPT == 11
BAM_EDIT_NUMBER_KEY_DP == 12
BAM_EDIT_NUMBER_KEY_MINUS == 14
BAM_EDIT_NUMBER_KEY_CANCEL == 15

\* bam_edit_number_metadata_t
BAM_EDIT_NUMBER_METADATA_BACKSPACE == 0
BAM_EDIT_NUMBER_METADATA_CLEAR == 1
BAM_EDIT_NUMBER_METADATA_ACCEPT == 2
BAM_EDIT_NUMBER_METADATA_CANCEL == 3

\* the character codes of the key texts of edit_number, 0 for ""
KEYPAD_TEXT ==
    << 55, 56, 57, 0,
       52, 53, 54, 0,
       49, 50, 51, 0,
       46, 48, 45, 0 >>

lex_is_digit(c) == c >= 48 /\ c <= 57

\* a plausible slip: from the second character on the decimal point stays enabled
\* whether the text has one or not
edit_number_enforce_format_dp(e) ==
    With(e, LAMBDA e0 :
        LET ctx == e0.ctx
            str == ctx.buffer
            length == ctx.buffer_ptr
            dp_widget == Key(ctx, BAM_EDIT_NUMBER_KEY_DP)
            minus_widget == Key(ctx, BAM_EDIT_NUMBER_KEY_MINUS)
            dp_enabled == CASE length = 0 -> FALSE
                            [] length = 1 -> ctx.type = "REAL" /\ lex_is_digit(str[1])
                            [] OTHER -> ctx.type = "REAL"
            minus_enabled == CASE length = 0 -> ctx.type # "UNSIGNED_INT"
                               [] length = 1 -> FALSE
                               [] OTHER -> FALSE
        IN  With(bam_set_widget_enabled(e0.bam, dp_widget, dp_enabled), LAMBDA b1 :
            With(bam_set_widget_enabled(b1, minus_widget, minus_enabled), LAMBDA b2 :
            With(bam_set_widget_enabled(b2, Key(ctx, BAM_EDIT_NUMBER_KEY_ACCEPT),
                                        IF length > 0 THEN lex_is_digit(ctx.buffer[ctx.buffer_ptr])
                                                      ELSE FALSE), LAMBDA b3 :
            With(bam_set_widget_enabled(b3, Key(ctx, BAM_EDIT_NUMBER_KEY_BACKSPACE), length > 0),
                 LAMBDA b4 :
            With(bam_set_widget_enabled(b4, Key(ctx, BAM_EDIT_NUMBER_KEY_CLEAR), length > 0),
                 LAMBDA b5 :
            [e0 EXCEPT !.bam = bam_force_widget_redraw(b5, ctx.field_widget)]))))))

edit_number_enforce_format(e) ==
    With(e, LAMBDA e0 :
        LET ctx == e0.ctx
            str == ctx.buffer
            length == ctx.buffer_ptr
            dp_widget == Key(ctx, BAM_EDIT_NUMBER_KEY_DP)
            minus_widget == Key(ctx, BAM_EDIT_NUMBER_KEY_MINUS)
            dp_enabled == CASE length = 0 -> FALSE
                            [] length = 1 -> ctx.type = "REAL" /\ lex_is_digit(str[1])
                            [] OTHER -> ctx.type = "REAL"
                                        /\ \A k \in 1 .. strlen(str) : str[k] # 46
            minus_enabled == CASE length = 0 -> ctx.type # "UNSIGNED_INT"
                               [] length = 1 -> FALSE
                               [] OTHER -> FALSE
        IN  With(bam_set_widget_enabled(e0.bam, dp_widget, dp_enabled), LAMBDA b1 :
            With(bam_set_widget_enabled(b1, minus_widget, minus_enabled), LAMBDA b2 :
            With(bam_set_widget_enabled(b2, Key(ctx, BAM_EDIT_NUMBER_KEY_ACCEPT),
                                        IF length > 0 THEN lex_is_digit(ctx.buffer[ctx.buffer_ptr])
                                                      ELSE FALSE), LAMBDA b3 :
            With(bam_set_widget_enabled(b3, Key(ctx, BAM_EDIT_NUMBER_KEY_BACKSPACE), length > 0),
                 LAMBDA b4 :
            With(bam_set_widget_enabled(b4, Key(ctx, BAM_EDIT_NUMBER_KEY_CLEAR), length > 0),
                 LAMBDA b5 :
            [e0 EXCEPT !.bam = bam_force_widget_redraw(b5, ctx.field_widget)]))))))

\* edit_number_append; buffer_end is buffer + buffer_size - 1
edit_number_append(e, c) ==
    IF e.ctx.buffer_ptr < e.ctx.buffer_size - 1
    THEN edit_number_enforce_format(FieldShows(
            [e EXCEPT !.ctx.buffer = WriteBytes(@, e.ctx.buffer_ptr, <<c, 0>>),
                      !.ctx.buffer_ptr = @ + 1]))
    ELSE e

\* a plausible slip: the Cancel key reports a result of its own
edit_number_key_func_cancel(m, ctx, widget) ==
    LET metadata == bam_get_widget_metadata(m.bam, widget)
    IN  IF metadata = BAM_EDIT_NUMBER_METADATA_ACCEPT THEN [m |-> bam_stop(m, 1), ctx |-> ctx]
        ELSE [m |-> bam_stop(m, 3), ctx |-> ctx]

\* edit_number_key_func, the callback of every key: the machine and the editor
\* context after it ran for `widget`
edit_number_key_func(m, ctx, widget) ==
    LET metadata == bam_get_widget_metadata(m.bam, widget)
        e == [bam |-> m.bam, ctx |-> ctx]
        edited(e2) == [m |-> [m EXCEPT !.bam = e2.bam], ctx |-> e2.ctx]
    IN  CASE metadata = BAM_EDIT_NUMBER_METADATA_BACKSPACE ->
                IF ctx.buffer_ptr # 0
                THEN edited(edit_number_enforce_format(FieldShows(
                        [e EXCEPT !.ctx.buffer = WriteBytes(@, ctx.buffer_ptr - 1, <<0>>),
                                  !.ctx.buffer_ptr = @ - 1])))
                ELSE [m |-> m, ctx |-> ctx]
          [] metadata = BAM_EDIT_NUMBER_METADATA_CLEAR ->
                edited(edit_number_enforce_format(FieldShows(
                    [e EXCEPT !.ctx.buffer = WriteBytes(@, 0, <<0>>), !.ctx.buffer_ptr = 0])))
          [] metadata = BAM_EDIT_NUMBER_METADATA_ACCEPT ->
                [m |-> bam_stop(m, 1), ctx |-> ctx]
          [] metadata = BAM_EDIT_NUMBER_METADATA_CANCEL ->
                [m |-> bam_stop(m, 0), ctx |-> ctx]
          [] OTHER -> edited(edit_number_append(e, metadata))

\* the loop of edit_number that strips trailing zeros (lines 1164-1166)
RECURSIVE StripZeros(_, _)
StripZeros(buffer, buffer_ptr) ==
    IF buffer_ptr > 0 /\ buffer[buffer_ptr] = 48
    THEN StripZeros(buffer, buffer_ptr - 1)
    ELSE buffer_ptr

\* edit_number, lines 1191-1195: text, metadata and callback of the 16 keys, from key
\* i on (the user pointer is &ctx, shown as 0).  The keys are widgets of the pool; the
\* model has no memory outside the pool and ends the loop at a handle outside it.
RECURSIVE NumberKeysFrom(_, _, _)
NumberKeysFrom(b, ctx, i) ==
    IF i >= 16 \/ Key(ctx, i) >= Len(b.widgets) THEN b
    ELSE NumberKeysFrom(
            bam_set_widget_callback(
                bam_set_widget_metadata(
                    bam_set_widget_text(b, Key(ctx, i), KeyText(KEYPAD_TEXT[i + 1])),
                    Key(ctx, i), KEYPAD_TEXT[i + 1]),
                Key(ctx, i), "edit_number_key_func", 0),
            ctx, i + 1)

\* edit_number, lines 1144-1188: the buffer is terminated, the scene cleared, a real
\* number stripped of its trailing zeros, the field and the grid of 16 keys created.
\* The result holds the context, the editor context and whether bam_add_widget
\* panicked (the pool is too small); the keypad bounds are not empty on the displays
\* modelled, so the grid has all its keys.
EditNumberScene(b, buffer, buffer_size, type, editor_style) ==
    LET terminated == WriteBytes(buffer, buffer_size - 1, <<0>>)
        b1 == bam_delete_widgets(b)
        style == widget_get_style(b1, editor_style.field_style)
        font_metrics == get_font_metrics(StyleOf(style).font)
        spacing == editor_style.spacing
        field_height == font_metrics.line_height + (2 * StyleOf(style).v_padding)
        zeros == StripZeros(terminated, strlen(terminated))
        buffer_ptr == IF type # "REAL" THEN strlen(terminated)
                      ELSE IF zeros > 0 /\ terminated[max_int(zeros, 1)] = 46 THEN zeros - 1
                      ELSE zeros
        stripped == IF type = "REAL" THEN WriteBytes(terminated, buffer_ptr, <<0>>)
                    ELSE terminated
        b2 == bam_add_widget(b1, 0, 0, b1.disp_width, field_height, style,
                             BufferMem(stripped), FALSE)
        grid == bam_layout_grid(b2, 4, 4,
                                Rect(0, field_height + spacing, b1.disp_width, b1.disp_height),
                                spacing, spacing,
                                widget_get_style(b2, editor_style.num_key_style), TRUE, 16)
        ctx == [type         |-> type,
                field_widget |-> Len(b1.widgets),
                key_widgets  |-> IF PoolFull(b1) THEN << >> ELSE grid.handles,
                buffer       |-> stripped,
                buffer_ptr   |-> buffer_ptr,
                buffer_size  |-> buffer_size]
    IN  IF PoolFull(b1) THEN [bam |-> b1, ctx |-> ctx, panic |-> TRUE]
        ELSE [bam |-> grid.bam, ctx |-> ctx, panic |-> grid.panic]

\* edit_number, lines 1191-1219: the keys of the keypad
EditNumberKeys(s, editor_style) ==
    LET ctx == s.ctx
        b3 == NumberKeysFrom(s.bam, ctx, 0)
        b4 == SpecialKey(b3, Key(ctx, BAM_EDIT_NUMBER_KEY_BACKSPACE), editor_style.edit_key_style,
                         editor_style.backspace_text, BAM_EDIT_NUMBER_METADATA_BACKSPACE)
        b5 == SpecialKey(b4, Key(ctx, BAM_EDIT_NUMBER_KEY_CLEAR), editor_style.edit_key_style,
                         editor_style.clear_text, BAM_EDIT_NUMBER_METADATA_CLEAR)
        b6 == SpecialKey(b5, Key(ctx, BAM_EDIT_NUMBER_KEY_ACCEPT), editor_style.accept_key_style,
                         editor_style.accept_text, BAM_EDIT_NUMBER_METADATA_ACCEPT)
    IN  IF s.panic THEN s
        ELSE [s EXCEPT !.bam =
                SpecialKey(b6, Key(ctx, BAM_EDIT_NUMBER_KEY_CANCEL),
                           editor_style.cancel_key_style, editor_style.cancel_text,
                           BAM_EDIT_NUMBER_METADATA_CANCEL)]

\* edit_number up to its call of bam_start (lines 1144-1223): the scene and the editor
\* context, or the panic of bam_add_widget
edit_number(b, buffer, buffer_size, type, editor_style) ==
    LET s == EditNumberKeys(EditNumberScene(b, buffer, buffer_size, type, editor_style),
                            editor_style)
    IN  IF s.panic THEN s
        ELSE [bam |-> edit_number_enforce_format([bam |-> s.bam, ctx |-> s.ctx]).bam,
              ctx |-> s.ctx, panic |-> FALSE]

\* ------------------------------------------------------------------ number editor: conversions

INT_MAX == 2147483647

\* the decimal digits of n >= 0 as character codes
RECURSIVE Digits(_)
Digits(n) == IF n < 10 THEN << 48 + n >> ELSE Digits(n \div 10) \o << 48 + (n % 10) >>

\* snprintf(buffer, size, ...) of the characters text: at most size - 1 of them and a
\* NUL; the rest of the buffer, a local never initialised, holds what the stack held
\* (shown as 191)
snprintf(size, text) ==
    [i \in 1 .. size |->
        IF i <= Len(text) /\ i < size THEN text[i]
        ELSE IF i = min_int(Len(text), size - 1) + 1 THEN 0
        ELSE 191]

\* printf's "%i"; -INT_MAX - 1 has no positive counterpart
FormatInt(value) ==
    IF value >= 0 THEN Digits(value)
    ELSE IF value = -INT_MAX - 1 THEN << 45 >> \o Digits(INT_MAX \div 10) \o << 48 + (INT_MAX % 10) + 1 >>
    ELSE << 45 >> \o Digits(-value)

\* The digits of text from index i on as a number, acc being the digits read so far.
\* strtol saturates at the range of long; a number past INT_MAX is clamped by the
\* caller whatever it is, so the digits past it are only noted in `over`.
RECURSIVE ParseDigits(_, _, _)
ParseDigits(text, i, acc) ==
    IF i <= Len(text) /\ lex_is_digit(text[i])
    THEN IF acc.over \/ acc.value > (INT_MAX - (text[i] - 48)) \div 10
         THEN ParseDigits(text, i + 1, [value |-> INT_MAX, over |-> TRUE])
         ELSE ParseDigits(text, i + 1, [value |-> (acc.value * 10) + (text[i] - 48), over |-> FALSE])
    ELSE acc

\* strtol(buffer, NULL, 10) followed by the clamp of bam_edit_integer; text is the
\* buffer up to its NUL
ParseInt(text) ==
    LET negative == Len(text) > 0 /\ text[1] = 45
        signed == Len(text) > 0 /\ text[1] \in {43, 45}
        n == ParseDigits(text, IF signed THEN 2 ELSE 1, [value |-> 0, over |-> FALSE])
    IN  IF n.over THEN (IF negative THEN -INT_MAX - 1 ELSE INT_MAX)
        ELSE IF negative THEN -n.value
        ELSE n.value

\* A bam_real_t is shown as the decimal numeral it is nearest to: its sign, the digits
\* of its whole part without leading zeros and its decimals without trailing zeros.
\* A double holds fifteen significant digits, as many as the editor's buffer.
Real(negative, whole, decimals) ==
    [negative |-> negative, whole |-> whole, decimals |-> decimals]

RECURSIVE StripLeadingZeros(_)
StripLeadingZeros(digits) ==
    IF Len(digits) > 0 /\ digits[1] = 48 THEN StripLeadingZeros(Tail(digits)) ELSE digits

RECURSIVE StripTrailingZeros(_)
StripTrailingZeros(digits) ==
    IF Len(digits) > 0 /\ digits[Len(digits)] = 48
    THEN StripTrailingZeros(SubSeq(digits, 1, Len(digits) - 1))
    ELSE digits

\* the digits of text from index i on
RECURSIVE DigitRun(_, _)
DigitRun(text, i) ==
    IF i <= Len(text) /\ lex_is_digit(text[i]) THEN << text[i] >> \o DigitRun(text, i + 1)
    ELSE << >>

\* printf's "%f": six decimals; the values given to the editor have no more
FormatReal(value) ==
    (IF value.negative THEN << 45 >> ELSE << >>)
    \o (IF value.whole = << >> THEN << 48 >> ELSE value.whole)
    \o << 46 >>
    \o [i \in 1 .. 6 |-> IF i <= Len(value.decimals) THEN value.decimals[i] ELSE 48]

\* strtod(buffer, NULL) of a text of sign, digits, point and digits
ParseReal(text) ==
    LET negative == Len(text) > 0 /\ text[1] = 45
        first == IF Len(text) > 0 /\ text[1] \in {43, 45} THEN 2 ELSE 1
        whole == DigitRun(text, first)
        point == first + Len(whole)
        decimals == IF point <= Len(text) /\ text[min_int(point, Len(text))] = 46
                    THEN DigitRun(text, point + 1)
                    ELSE << >>
    IN  Real(negative, StripLeadingZeros(whole), StripTrailingZeros(decimals))

\* bam_edit_integer up to the entry of the event loop of edit_number (lines 1233-1240)
bam_edit_integer(b, value, is_signed, editor_style) ==
    edit_number(b, snprintf(BAM_EDIT_NUMBER_BUFFER_SIZE, FormatInt(value)),
                BAM_EDIT_NUMBER_BUFFER_SIZE,
                IF is_signed THEN "SIGNED_INT" ELSE "UNSIGNED_INT", editor_style)

\* bam_edit_real up to the entry of the event loop of edit_number (lines 1265-1271)
bam_edit_real(b, value, editor_style) ==
    edit_number(b, snprintf(BAM_EDIT_NUMBER_BUFFER_SIZE, FormatReal(value)),
                BAM_EDIT_NUMBER_BUFFER_SIZE, "REAL", editor_style)

\* bam_edit_integer, lines 1242-1254, and bam_edit_real, lines 1273-1275: the caller's
\* value after the loop returned
EditedValue(type, accepted, buffer, value) ==
    IF ~accepted THEN value
    ELSE IF type = "REAL" THEN ParseReal(SubSeq(buffer, 1, strlen(buffer)))
    ELSE ParseInt(SubSeq(buffer, 1, strlen(buffer)))

\* ------------------------------------------------------------------ SpecNumber: the number editor

\* the widget pool holds the field and the 16 keys; on a display of 4x5 pixels (one
\* tile) the field is the top line and key i the pixel (i % 4, 1 + i \div 4)
NumberContext == bam_init(ConstBuffer(BAM_DIRTY_BUFFER_SIZE(4, 5, 8, 8), {}), 17, 4, 5, 8, 8)

NumberKeyPoint(i) == << i % 4, 1 + (i \div 4) >>

\* the keys the user touches: '1', Backspace, Accept, Cancel
NumberKeys ==
    { 8, BAM_EDIT_NUMBER_KEY_BACKSPACE, BAM_EDIT_NUMBER_KEY_ACCEPT, BAM_EDIT_NUMBER_KEY_CANCEL }

\* the scene of the application: a menu button over the whole display, its user
\* pointer shown as 1
MenuScene(b) ==
    With(bam_delete_widgets(b), LAMBDA b1 :
        bam_set_widget_callback(
            bam_add_widget(b1, 0, 0, b1.disp_width, b1.disp_height, "NULL", KeyText(77), TRUE),
            0, "menu", 1))

\* the editor calls the application makes, with the value it keeps
NumberCalls ==
    { [fn |-> "bam_edit_integer", is_signed |-> TRUE, value |-> -3],
      [fn |-> "bam_edit_integer", is_signed |-> FALSE, value |-> 20],
      [fn |-> "bam_edit_real", is_signed |-> TRUE, value |-> Real(FALSE, <<50>>, <<53>>)] }

\* main has built the menu; fn_in holds the call the menu button makes and the
\* caller's value
InitNumber ==
    /\ bam = MenuScene(NumberContext)
    /\ \E call \in NumberCalls :
          fn_in = [fn |-> call.fn, is_signed |-> call.is_signed, value |-> call.value,
                   ctx |-> << >>, last_key |-> NULL]
    /\ fn_out = << >>
    /\ fn_pc = "app"
    /\ stack = << >>
    /\ op = NoOp
    /\ host_log = << >>

\* main runs the loop of the menu, once
StartMenu == Top.kind = "main" /\ op.name = "none" /\ Start(1)

\* the callback of the menu button runs
InMenu == ~Halted /\ Top.kind = "cb" /\ Top.user_data = 1

\* the menu button calls bam_quit(9) before it does anything else
MenuQuit == InMenu /\ fn_pc = "app" /\ ~bam.quit_flag /\ Quit(9, TRUE)

\* the menu button calls bam_edit_integer or bam_edit_real: the call up to the entry
\* of the event loop; fn_out keeps the value and the quit flag at the call
EditNumberCall ==
    /\ InMenu /\ fn_pc = "app"
    /\ \E e \in { IF fn_in.fn = "bam_edit_real"
                   THEN bam_edit_real(bam, fn_in.value, EditorStyle)
                   ELSE bam_edit_integer(bam, fn_in.value, fn_in.is_signed, EditorStyle) } :
           /\ ~e.panic
           /\ EditorStarts(e.bam)
           /\ fn_in' = [fn_in EXCEPT !.ctx = e.ctx, !.last_key = NULL]
    /\ fn_out' = [value |-> fn_in.value, quit_flag |-> bam.quit_flag]
    /\ op' = Op("edit_number_call", NULL, 0, 0, 0, NoFrame)
    /\ fn_pc' = "edit"

GetEventNumber ==
    \E event \in Events({ NumberKeyPoint(i) : i \in NumberKeys }) : LoopEvent(event, TRUE)

\* edit_number_key_func runs for the key that was triggered and returns to the loop
EditNumberKey ==
    /\ InKeyFunc("edit_number_key_func")
    /\ \E r \in { edit_number_key_func(Machine(bam, stack), fn_in.ctx, Top.widget) } :
       LET metadata == bam_get_widget_metadata(bam, Top.widget)
       IN  /\ bam' = r.m.bam
           /\ stack' = KeyFuncReturns(r.m.stack,
                            metadata \in {BAM_EDIT_NUMBER_METADATA_CANCEL,
                                          BAM_EDIT_NUMBER_METADATA_ACCEPT},
                            r.m.bam.run_result)
           /\ fn_in' = [fn_in EXCEPT
                            !.ctx = r.ctx,
                            !.last_key = CHOOSE i \in 0 .. 15 : Key(fn_in.ctx, i) = Top.widget]
           /\ op' = Op("key", Top.widget, 0, 0, metadata, NoFrame)
    /\ host_log' = << >>
    /\ UNCHANGED <<fn_out, fn_pc>>

\* edit_number returns what its event loop returned, as a bool, and bam_edit_integer
\* or bam_edit_real writes the value
EditNumberReturn ==
    /\ ~Halted /\ Top.kind = "edit" /\ fn_pc = "edit" /\ op.name = "return"
    /\ stack' = SubSeq(stack, 1, Len(stack) - 1)
    /\ fn_in' = [fn_in EXCEPT !.value = EditedValue(fn_in.ctx.type, op.r # 0,
                                                    fn_in.ctx.buffer, fn_in.value)]
    /\ op' = Op("edit_number", NULL, 0, 0, IF op.r # 0 THEN 1 ELSE 0, op.frame)
    /\ fn_pc' = "back"
    /\ host_log' = << >>
    /\ UNCHANGED <<bam, fn_out>>

\* after the editor returned the menu button builds the menu again, ends the loop
\* of the menu with bam_stop(0) and returns to it
MenuReturn ==
    /\ InMenu /\ fn_pc = "back"
    /\ \E m \in { bam_stop(Machine(MenuScene(bam), stack), 0) } :
           /\ bam' = m.bam
           /\ stack' = SubSeq(NoteStop(m.stack, bam.run_flag, 0, FALSE, TRUE), 1, Len(stack) - 1)
    /\ fn_pc' = "done"
    /\ op' = Op("cb_return", NULL, 0, 0, 0, NoFrame)
    /\ host_log' = << >>
    /\ UNCHANGED <<fn_in, fn_out>>

NextNumber ==
    \/ StartMenu \/ LoopClean \/ GetEventNumber \/ LoopCheck \/ MenuQuit \/ EditNumberCall
    \/ EditNumberKey \/ EditNumberReturn \/ MenuReturn

SpecNumber == InitNumber /\ [][NextNumber]_vars

\* ------------------------------------------------------------------ number editor: claims

\* bam_edit_integer or bam_edit_real has just returned
EditorReturned == op.name = "edit_number"

\* the last call that acted on the run flag of the editor's loop was the bam_stop of
\* the key `key`
EndedByKey(key) == op.frame.by = "stop" /\ fn_in.last_key = key

\* the editor's loop was ended by a QUIT event: the loop called bam_quit(0)
EndedByQuitEvent == op.frame.by = "quit" /\ op.frame.stop_r = 0

\* the accepted/cancelled contract of the number editors
EditorContract ==
    /\ (op.r = 1) <=> EndedByKey(BAM_EDIT_NUMBER_KEY_ACCEPT)
    /\ EndedByKey(BAM_EDIT_NUMBER_KEY_CANCEL) => op.r = 0
    /\ EndedByQuitEvent => op.r = 0
    /\ op.r = 0 => fn_in.value = fn_out.value

\* C20: bam_edit_integer and bam_edit_real return true iff their nested loop was ended
\* by the Accept key, false when it was ended by the Cancel key or by a QUIT event, and
\* in the false case the caller's value is left unchanged
C20_EditorResult_Original == EditorReturned => EditorContract

\* C20: as above, for an editor called while the quit flag of the context is clear
C20_EditorResult == EditorReturned /\ ~fn_out.quit_flag => EditorContract

\* C20: the editor was called with the quit flag clear, '1' was typed after the text
\* -3, and Accept ended the loop: it returned true and the value is -31
C20_Witness ==
    /\ EditorReturned /\ ~fn_out.quit_flag /\ fn_in.fn = "bam_edit_integer"
    /\ EndedByKey(BAM_EDIT_NUMBER_KEY_ACCEPT) /\ op.r = 1
    /\ fn_out.value = -3 /\ fn_in.value = -31

C20_WitnessCancel ==
    /\ EditorReturned /\ ~fn_out.quit_flag
    /\ EndedByKey(BAM_EDIT_NUMBER_KEY_CANCEL) /\ op.r = 0
    /\ fn_in.ctx.buffer_ptr = 0

C20_WitnessQuit ==
    /\ EditorReturned /\ ~fn_out.quit_flag
    /\ EndedByQuitEvent /\ op.r = 0 /\ fn_in.ctx.buffer_ptr = 4

\* ------------------------------------------------------------------ set_enabled on a pressed widget

\* bam_set_widget_enabled has run on a widget whose state was Pressed
SetEnabledOnPressed ==
    /\ fn_pc = "done" /\ fn_in.fn = "set_enabled"
    /\ fn_out.widgets[fn_in.widget + 1].state = BAM_STATE_PRESSED

\* C25: set_enabled(w, true) and set_enabled(w, false) called on a widget whose state
\* is Pressed leave its state Pressed
C25_PressedKept_Original ==
    SetEnabledOnPressed => bam.widgets[fn_in.widget + 1].state = BAM_STATE_PRESSED

\* C25, what the setter does: called on a widget whose state is Pressed it makes the
\* state Enabled or Disabled as asked and marks the widget's tiles dirty, and the
\* widget stays the pressed widget of the context
C25_PressedOverwritten ==
    SetEnabledOnPressed =>
        /\ bam.widgets[fn_in.widget + 1].state =
                (IF fn_in.arg THEN BAM_STATE_ENABLED ELSE BAM_STATE_DISABLED)
        /\ bam = widget_make_dirty(
                    [fn_out EXCEPT !.widgets[fn_in.widget + 1].state =
                        (IF fn_in.arg THEN BAM_STATE_ENABLED ELSE BAM_STATE_DISABLED)],
                    fn_in.widget)
        /\ bam.pressed_widget = fn_out.pressed_widget

\* C25: set_enabled(true) on the pressed second widget made it Enabled
C25_Witness ==
    /\ SetEnabledOnPressed /\ fn_in = SetterCall("set_enabled", 1, TRUE)
    /\ fn_out.pressed_widget = 1
    /\ bam.widgets[2].state = BAM_STATE_ENABLED /\ bam.pressed_widget = 1

\* ------------------------------------------------------------------ SpecPass: a Clean pass, host call by host call

\* the most tiles host code marks dirty during one pass
MaxMarks == 2

\* a display of 2x2 tiles, one word of the bitmap per tile row, and three widgets one
\* tile large: the first (labelled) at tile (0, 0), the second at tile (1, 0), in the
\* same word, the third at tile (0, 1), in the next word
PassContext ==
    With(bam_add_widget(bam_init(ConstBuffer(BAM_DIRTY_BUFFER_SIZE(4, 4, 2, 2), {}), 3, 4, 4, 2, 2),
                        0, 0, 2, 2, "NULL", TextA, TRUE), LAMBDA b1 :
    With(bam_add_widget(b1, 2, 0, 2, 2, "NULL", "NULL", TRUE), LAMBDA b2 :
         bam_add_widget(b2, 0, 2, 2, 2, "NULL", "NULL", TRUE)))

\* the locals of dirty_clean (lines 513-527) and the host calls the tile being
\* cleaned has yet to issue
PassLocals(dirty_i, dirty_m, word_x, offset_y, word, tile, pending) ==
    [dirty_i |-> dirty_i, dirty_m |-> dirty_m, word_x |-> word_x, offset_y |-> offset_y,
     word |-> word, tile |-> tile, pending |-> pending]

\* the word of the bitmap that holds the bit of tile t
WordOfTile(b, t) == (t[2] * b.dirty_buffer_pitch) + (t[1] \div BAM__UINT32_N_BITS)

\* dirty_clean is called with any set of tiles dirty; fn_out keeps the tiles dirty at
\* the call and the tiles host code marked during the pass
InitPass ==
    /\ \E tiles \in SUBSET DisplayTiles(PassContext) :
          bam = [PassContext EXCEPT !.dirty_buffer = BufferOf(PassContext, tiles)]
    /\ fn_in = PassLocals(0, 0, 0, 0, {}, << >>, << >>)
    /\ fn_out = [start |-> {}, marks |-> {}]
    /\ fn_pc = "call"
    /\ stack = << >>
    /\ op = NoOp
    /\ host_log = << >>

\* dirty_clean, lines 513-529: entry
PassBegin ==
    /\ fn_pc = "call"
    /\ fn_in' = PassLocals(0, bam.dirty_buffer_pitch, 0, 0, {}, << >>, << >>)
    /\ fn_out' = [start |-> DirtyTiles(bam), marks |-> {}]
    /\ fn_pc' = "load"
    /\ op' = Op("dirty_clean", NULL, 0, 0, 0, NoFrame)
    /\ UNCHANGED <<bam, stack, host_log>>

\* dirty_clean, lines 533-535: the word is read and zero is stored in its place
LoadWord ==
    /\ fn_pc = "load"
    /\ fn_in' = [fn_in EXCEPT !.word = bam.dirty_buffer[fn_in.dirty_i]]
    /\ bam' = [bam EXCEPT !.dirty_buffer[fn_in.dirty_i] = {}]
    /\ fn_pc' = "bits"
    /\ op' = Op("load", NULL, 0, 0, fn_in.dirty_i, NoFrame)
    /\ UNCHANGED <<stack, host_log, fn_out>>

\* a plausible slip: the bits are taken from the bitmap itself, not from the copy of
\* the word made before zero was stored
NextTile_live ==
    /\ fn_pc = "bits" /\ fn_in.word \cup bam.dirty_buffer[fn_in.dirty_i] # {}
    /\ LET clz == Clz(fn_in.word \cup bam.dirty_buffer[fn_in.dirty_i])
           bit == BAM__UINT32_N_BITS - 1 - clz
       IN  /\ fn_in' = [fn_in EXCEPT
                            !.word = @ \ {bit},
                            !.tile = TileOfBit(bam, fn_in.dirty_i, bit),
                            !.pending = CleanWord(bam, {bit}, fn_in.word_x, fn_in.offset_y)]
           /\ bam' = [bam EXCEPT !.dirty_buffer[fn_in.dirty_i] = @ \ {bit}]
    /\ fn_pc' = "host"
    /\ op' = Op("tile", NULL, 0, 0, 0, NoFrame)
    /\ UNCHANGED <<stack, host_log, fn_out>>

\* dirty_clean, lines 537-560: the next bit of the word is taken; the host calls of
\* its tile are those CleanWord gives for the word of that one bit
NextTile ==
    /\ fn_pc = "bits" /\ fn_in.word # {}
    /\ LET clz == Clz(fn_in.word)
           bit == BAM__UINT32_N_BITS - 1 - clz
       IN  fn_in' = [fn_in EXCEPT
                        !.word = @ \ {bit},
                        !.tile = TileOfBit(bam, fn_in.dirty_i, bit),
                        !.pending = CleanWord(bam, {bit}, fn_in.word_x, fn_in.offset_y)]
    /\ fn_pc' = "host"
    /\ op' = Op("tile", NULL, 0, 0, 0, NoFrame)
    /\ UNCHANGED <<bam, stack, host_log, fn_out>>

\* the tiles that are dirty in b2 and were not in b1, as the marks of a host call:
\* `at` is the number of host calls issued so far, the one that marks included
MarksOf(b1, b2, at) ==
    { [tile |-> t, at |-> at,
       later |-> WordOfTile(b1, t) > fn_in.dirty_i,
       pending |-> WordOfTile(b1, t) = fn_in.dirty_i
                   /\ (BAM__UINT32_N_BITS - 1 - (t[1] % BAM__UINT32_N_BITS)) \in fn_in.word,
       current |-> t = fn_in.tile] :
        t \in DirtyTiles(b2) \ DirtyTiles(b1) }

\* the host call the tile issues next, the host code returning at once
HostCall ==
    /\ fn_pc = "host" /\ fn_in.pending # << >>
    /\ host_log' = Append(host_log, Head(fn_in.pending))
    /\ fn_in' = [fn_in EXCEPT !.pending = Tail(@), !.tile = IF Len(fn_in.pending) = 1 THEN << >> ELSE @]
    /\ fn_pc' = IF Len(fn_in.pending) = 1 THEN "bits" ELSE "host"
    /\ op' = Op(Head(fn_in.pending).fn, NULL, 0, 0, 0, NoFrame)
    /\ UNCHANGED <<bam, stack, fn_out>>

\* the host call the tile issues next, the host code calling
\* bam_force_widget_redraw(widget) before it returns
HostCallMarks ==
    /\ fn_pc = "host" /\ fn_in.pending # << >>
    /\ Cardinality(fn_out.marks) < MaxMarks
    /\ \E widget \in Handles(bam) :
          \E b2 \in { bam_force_widget_redraw(bam, widget) } :
             /\ bam' = b2
             /\ fn_out' = [fn_out EXCEPT !.marks = @ \cup MarksOf(bam, b2, Len(host_log) + 1)]
             /\ op' = Op(Head(fn_in.pending).fn, widget, 0, 0, 0, NoFrame)
    /\ host_log' = Append(host_log, Head(fn_in.pending))
    /\ fn_in' = [fn_in EXCEPT !.pending = Tail(@), !.tile = IF Len(fn_in.pending) = 1 THEN << >> ELSE @]
    /\ fn_pc' = IF Len(fn_in.pending) = 1 THEN "bits" ELSE "host"
    /\ UNCHANGED stack

\* dirty_clean, lines 563-572: the word is used up; the next word, or the return
WordDone ==
    /\ fn_pc = "bits" /\ fn_in.word = {}
    /\ LET next_row == fn_in.dirty_i + 1 >= fn_in.dirty_m
       IN  fn_in' = [fn_in EXCEPT
                        !.dirty_i = @ + 1,
                        !.dirty_m = IF next_row THEN @ + bam.dirty_buffer_pitch ELSE @,
                        !.word_x = IF next_row THEN 0 ELSE @ + (32 * bam.tile_width),
                        !.offset_y = IF next_row THEN @ + bam.tile_height ELSE @]
    /\ fn_pc' = IF fn_in.dirty_i + 1 < Cardinality(DOMAIN bam.dirty_buffer) THEN "load" ELSE "done"
    /\ op' = Op("word_done", NULL, 0, 0, 0, NoFrame)
    /\ UNCHANGED <<bam, stack, host_log, fn_out>>

NextPass == PassBegin \/ LoadWord \/ NextTile \/ HostCall \/ HostCallMarks \/ WordDone

SpecPass == InitPass /\ [][NextPass]_vars

\* ------------------------------------------------------------------ Clean pass re-entered: claims

\* the tile of mark m became dirty during the pass: it was neither waiting in the
\* word being consumed nor the tile being cleaned when host code marked it
BecameDirty(m) == ~m.pending /\ ~m.current

\* tile t is blitted by a host call issued after the first `at` calls
BlittedAfter(t, at) ==
    \E i \in BltCallsAt(host_log, t[1] * bam.tile_width, t[2] * bam.tile_height) : i > at

C22_WitnessLater ==
    /\ fn_pc = "done"
    /\ \E m \in fn_out.marks :
          /\ BecameDirty(m) /\ m.later /\ m.tile = <<0, 1>> /\ <<0, 1>> \notin fn_out.start
          /\ BlittedAfter(m.tile, m.at)
          /\ <<0, 1>> \notin DirtyTiles(bam)

\* ------------------------------------------------------------------ SpecOrder: the host calls of each tile

\* the rectangles (x, y, width, height) the widgets of the scene are given: one tile,
\* a strip over three tiles, every tile and more, the corner shared by four tiles,
\* no area, beyond the display
OrderRects ==
    { <<0, 0, 2, 2>>, <<1, 1, 4, 1>>, <<-1, -1, 7, 5>>, <<1, 1, 2, 2>>, <<2, 0, 0, 2>>, <<6, 0, 2, 2>> }

\* a display of 3x2 tiles, the last column and the last row cut by the display edge,
\* and a pool of three widgets: the first labelled, of either state and style, the
\* second labelled, the third plain; `pressed` presses the second
OrderContext(r1, r2, r3, style, enabled, pressed) ==
    With(bam_add_widget(bam_init(ConstBuffer(BAM_DIRTY_BUFFER_SIZE(5, 3, 2, 2), {}), 3, 5, 3, 2, 2),
                        r1[1], r1[2], r1[3], r1[4], style, TextA, enabled), LAMBDA b1 :
    With(bam_add_widget(b1, r2[1], r2[2], r2[3], r2[4], "other", TextA, TRUE), LAMBDA b2 :
    With(bam_add_widget(b2, r3[1], r3[2], r3[3], r3[4], "NULL", "NULL", TRUE), LAMBDA b3 :
         IF pressed THEN widget_set_pressed(b3, 1) ELSE b3)))

\* the corner tile, the tile right of it, or the last tile of the display is dirty, or
\* every tile is
OrderDirty == { {<<0, 0>>}, {<<1, 0>>, <<2, 1>>}, {<<0, 1>>, <<2, 0>>}, (0 .. 2) \X (0 .. 1) }

InitOrder ==
    /\ \E r1 \in OrderRects, r2 \in OrderRects, r3 \in OrderRects, style \in {"NULL", "other"},
          enabled \in BOOLEAN, pressed \in BOOLEAN, tiles \in OrderDirty :
          \E b \in { OrderContext(r1, r2, r3, style, enabled, pressed) } :
             bam = [b EXCEPT !.dirty_buffer = BufferOf(b, tiles)]
    /\ fn_in = << >>
    /\ fn_out = {}
    /\ fn_pc = "call"
    /\ stack = << >>
    /\ op = NoOp
    /\ host_log = << >>

SpecOrder == InitOrder /\ [][NextClean]_vars

\* the indices of the blt_tile calls of log
BltCalls(log) == { i \in DOMAIN log : log[i].fn = "blt_tile" }

\* the first call of the segment of host calls that call i of log, a blt_tile, ends
SegmentFirst(log, i) == 1 + SetMax({0} \cup { j \in BltCalls(log) : j < i })

\* the pixels of tile t of context b, in display coordinates
TilePixels(b, t) ==
    ((t[1] * b.tile_width) .. ((t[1] + 1) * b.tile_width - 1))
        \X ((t[2] * b.tile_height) .. ((t[2] + 1) * b.tile_height - 1))

\* the handles of the widgets of b that have a pixel in tile t
WidgetsOver(b, t) ==
    { h \in 0 .. (Len(b.widgets) - 1) :
        \E p \in TilePixels(b, t) : rect_contains_point(b.widgets[h + 1].rect, p[1], p[2]) }

\* the handles of set S in increasing order
RECURSIVE InOrder(_)
InOrder(S) ==
    IF S = {} THEN << >>
    ELSE LET h == CHOOSE m \in S : \A n \in S : m <= n IN << h >> \o InOrder(S \ {h})

\* the fill of widget h in tile t: the part of its rectangle inside the tile, in the
\* coordinates of the tile, in the background colour of its state
WidgetFill(b, t, h) ==
    LET w == b.widgets[h + 1]
        ox == t[1] * b.tile_width
        oy == t[2] * b.tile_height
    IN  HostFill(Rect(max_int(w.rect.x1, ox) - ox, max_int(w.rect.y1, oy) - oy,
                      min_int(w.rect.x2, ox + b.tile_width) - ox,
                      min_int(w.rect.y2, oy + b.tile_height) - oy),
                 StyleOf(w.style).colors[w.state + 1].background, h)

\* the host calls of a pass over tile t alone with every widget but h without area
AloneCalls(b, t, h) ==
    LET alone == [b EXCEPT !.widgets = [k \in DOMAIN b.widgets |->
                        IF k = h + 1 THEN b.widgets[k]
                        ELSE [b.widgets[k] EXCEPT !.rect = rect_init_empty]]]
    IN  CleanCalls([alone EXCEPT !.dirty_buffer = BufferOf(alone, {t})])

CallsOf(calls, h) == SelectSeq(calls, LAMBDA c : c.widget = h)

IsFill(c) == c.fn = "draw_fill"

\* the calls from first to last, the blt_tile of tile t, are those the tile is due
TileSegment(log, first, last, t) ==
    LET seg == SubSeq(log, first, last)
        body == SubSeq(log, first + 1, last - 1)
        over == InOrder(WidgetsOver(bam, t))
    IN  /\ last > first
        /\ seg[1] = HostFill(rect_init(0, 0, bam.tile_width, bam.tile_height),
                             bam.background_color, NULL)
        /\ SelectSeq(body, IsFill) = [k \in 1 .. Len(over) |-> WidgetFill(bam, t, over[k])]
        /\ \A j \in 1 .. Len(body) :
              body[j].fn = "draw_glyph" =>
                  /\ j > 1 /\ body[j - 1].widget = body[j].widget
                  /\ body[j].color = StyleOf(bam.widgets[body[j].widget + 1].style)
                                        .colors[bam.widgets[body[j].widget + 1].state + 1].foreground
        /\ \A h \in WidgetsOver(bam, t) :
              CallsOf(body, h) = CallsOf(AloneCalls(bam, t, h), h)

DrawTiles ==
    { [w |-> 5, h |-> 3, tw |-> 2, th |-> 2, tile |-> <<0, 0>>],
      [w |-> 5, h |-> 3, tw |-> 2, th |-> 2, tile |-> <<2, 1>>],
      [w |-> 3, h |-> 1, tw |-> 2, th |-> 2, tile |-> <<0, 0>>] }

\* the coordinates of the rectangles handed to draw_fill, and those of the inner
\* region of the widget whose text is drawn
FillCoords == {-1, 0, 1, 3, 5, 6}

InnerCoords == {-1, 1, 2, 5}

\* where the text cursor stands relative to the origin of the tile
CursorOffsets == -1 .. 2

\* the metrics of the glyph: no width, one pixel, wider than a tile; bearings of
\* either sign
GlyphMetrics ==
    { [present |-> TRUE, codepoint |-> 65, width |-> gw, height |-> gh,
       x_bearing |-> xb, y_bearing |-> yb, x_advance |-> 1] :
        gw \in {0, 1, 3}, gh \in {1, 3}, xb \in -1 .. 1, yb \in {0, 2} }

\* the context of display d
DrawContext(d) ==
    bam_init(ConstBuffer(BAM_DIRTY_BUFFER_SIZE(d.w, d.h, d.tw, d.th), {}), 1, d.w, d.h, d.tw, d.th)

\* dirty_clean, lines 541-547: the draw state while the widgets of tile d.tile are drawn
TileDrawState(d) ==
    LET b == DrawContext(d)
        offset_x == d.tile[1] * d.tw
        offset_y == d.tile[2] * d.th
    IN  draw_set_clip(draw_set_translation(b.draw_state, -offset_x, -offset_y),
                      rect_set_pos(rect_init(0, 0, d.tw, d.th), offset_x, offset_y))

DrawCallOf(fn, d, ds, rect, x, y, metrics) ==
    [fn |-> fn, d |-> d, ds |-> ds, rect |-> rect, x |-> x, y |-> y, metrics |-> metrics]

\* draw_widget calls draw_fill with the rectangle of the widget, any rectangle that
\* has area, under the draw state of the tile; draw_text calls draw_glyph with the
\* clip cut to the inner region of the widget, which has area
InitDraw ==
    /\ \E d \in DrawTiles :
          /\ bam = DrawContext(d)
          /\ \/ \E x1 \in FillCoords, y1 \in FillCoords, x2 \in FillCoords, y2 \in FillCoords :
                   /\ ~rect_empty(Rect(x1, y1, x2, y2))
                   /\ fn_in = DrawCallOf("draw_fill", d, TileDrawState(d), Rect(x1, y1, x2, y2),
                                         0, 0, CHOOSE m \in GlyphMetrics : TRUE)
             \/ \E x1 \in InnerCoords, y1 \in InnerCoords, x2 \in InnerCoords, y2 \in InnerCoords,
                   dx \in CursorOffsets, dy \in CursorOffsets, metrics \in GlyphMetrics :
                   /\ ~rect_empty(Rect(x1, y1, x2, y2))
                   /\ fn_in = DrawCallOf("draw_glyph", d,
                                         draw_set_clip(TileDrawState(d), Rect(x1, y1, x2, y2)),
                                         Rect(x1, y1, x2, y2),
                                         (d.tile[1] * d.tw) + dx, (d.tile[2] * d.th) + dy, metrics)
    /\ fn_out = << >>
    /\ fn_pc = "call"
    /\ stack = << >>
    /\ op = NoOp
    /\ host_log = << >>

\* draw_fill(bam, rect, color): the host calls it issues
DrawFillCall ==
    /\ fn_pc = "call" /\ fn_in.fn = "draw_fill"
    /\ fn_out' = draw_fill(fn_in.ds, fn_in.rect, "bg1", 0)
    /\ host_log' = fn_out'
    /\ fn_pc' = "done"
    /\ UNCHANGED <<bam, stack, op, fn_in>>

\* draw_glyph(bam, x, y, metrics, colors): the host calls it issues
DrawGlyphCall ==
    /\ fn_pc = "call" /\ fn_in.fn = "draw_glyph"
    /\ fn_out' = draw_glyph(fn_in.ds, fn_in.x, fn_in.y, fn_in.metrics,
                            [foreground |-> "fg1", background |-> "bg1"], 0)
    /\ host_log' = fn_out'
    /\ fn_pc' = "done"
    /\ UNCHANGED <<bam, stack, op, fn_in>>

NextDraw == DrawFillCall \/ DrawGlyphCall

SpecDraw == InitDraw /\ [][NextDraw]_vars

\* rectangle r has area and lies inside the rectangle (0, 0, width, height)
InsideArea(r, width, height) ==
    /\ 0 <= r.x1 /\ r.x1 < r.x2 /\ r.x2 <= width
    /\ 0 <= r.y1 /\ r.y1 < r.y2 /\ r.y2 <= height

\* C24: every destination rectangle passed to the host draw_fill or draw_glyph while
\* a tile is cleaned has area and lies inside the tile buffer [0, tw) x [0, th); the
\* source rectangle passed to draw_glyph has the size of the destination rectangle
\* and lies inside [0, glyph width) x [0, glyph height)
C24_DestInsideTile ==
    fn_pc = "done" =>
        \A i \in DOMAIN fn_out :
            /\ InsideArea(fn_out[i].dest, fn_in.d.tw, fn_in.d.th)
            /\ fn_out[i].fn = "draw_glyph" =>
                  /\ rect_width(fn_out[i].src) = rect_width(fn_out[i].dest)
                  /\ rect_height(fn_out[i].src) = rect_height(fn_out[i].dest)
                  /\ InsideArea(fn_out[i].src, fn_in.metrics.width, fn_in.metrics.height)

\* C24: a glyph three pixels wide and high whose box starts left of and above the
\* last tile of the display was cut to the tile: the source starts inside the glyph
C24_Witness ==
    /\ fn_pc = "done" /\ fn_in.fn = "draw_glyph" /\ fn_in.d.tile = <<2, 1>>
    /\ fn_in.metrics.width = 3 /\ fn_in.metrics.height = 3
    /\ Len(fn_out) = 1
    /\ fn_out[1].src.x1 > 0 /\ fn_out[1].src.y1 > 0
    /\ rect_width(fn_out[1].dest) < 3

\* C24: the rectangle of a widget larger than the display was filled in the last tile
C24_WitnessFill ==
    /\ fn_pc = "done" /\ fn_in.fn = "draw_fill" /\ fn_in.d.tile = <<2, 1>>
    /\ fn_in.rect = Rect(-1, -1, 6, 6)
    /\ fn_out = << HostFill(Rect(0, 0, 2, 2), "bg1", 0) >>

\* ------------------------------------------------------------------ pool and pressed-widget pointer

\* C21: whatever calls and events came before, the top of the widget pool lies
\* between its begin and its end, and the pressed-widget pointer is null or
\* designates a widget below the top of the pool
C21_PoolInvariant ==
    /\ 0 <= Len(bam.widgets) /\ Len(bam.widgets) <= bam.widget_buffer_size
    /\ bam.pressed_widget # NULL =>
          0 <= bam.pressed_widget /\ bam.pressed_widget < Len(bam.widgets)

\* C21: the pool is full and its last widget is the pressed one
C21_Witness ==
    /\ Len(bam.widgets) = bam.widget_buffer_size
    /\ bam.pressed_widget = Len(bam.widgets) - 1
    /\ StateOf(bam, bam.pressed_widget) = BAM_STATE_PRESSED

\* a callback entered on the release of a widget has deleted the widgets and added one
C21_WitnessDeleted ==
    /\ Len(stack) > 0 /\ stack[Len(stack)].kind = "cb"
    /\ op.name = "add" /\ Len(bam.widgets) = 1 /\ bam.pressed_widget = NULL

\* ------------------------------------------------------------------ clean before every wait

\* the loop on top of the stack is about to call the host get_event
AtGetEvent == ~Halted /\ Top.kind = "loop" /\ Top.pc = "wait"

\* C26: whenever the event loop calls the host get_event no tile is dirty, in the
\* outermost loop and in every loop nested in it, the widgets being changed by the
\* handling of press and release events and by application code in main and in
\* widget callbacks only
C26_CleanBeforeWait ==
    AtGetEvent =>
        /\ DirtyTiles(bam) = {}
        /\ \A i \in DOMAIN bam.dirty_buffer : bam.dirty_buffer[i] = {}

\* C26: a nested loop, started by a callback that had added a widget, waits for its
\* first event with every tile clean
C26_Witness ==
    /\ AtGetEvent /\ Cardinality(LoopsOf(stack)) = 2
    /\ op.name = "clean" /\ host_log # << >>
    /\ DirtyTiles(bam) = {}

\* the outermost loop waits again after a press changed a widget: the pass that
\* followed blitted the tile of the widget
C26_WitnessPress ==
    /\ AtGetEvent /\ Cardinality(LoopsOf(stack)) = 1
    /\ bam.pressed_widget # NULL
    /\ op.name = "clean" /\ host_log # << >>
    /\ DirtyTiles(bam) = {}

\* ------------------------------------------------------------------ run-flag chain

\* the run-flag pointer of the context designates the innermost bam_start that has
\* not returned, and the pointer each bam_start saved designates the bam_start that
\* encloses it; both are null where there is none
RunFlagChain ==
    /\ bam.run_flag = (IF LoopsOf(stack) = {} THEN NULL ELSE SetMax(LoopsOf(stack)))
    /\ \A i \in LoopsOf(stack) :
          stack[i].saved_run_flag =
              (IF \E j \in LoopsOf(stack) : j < i
               THEN SetMax({ j \in LoopsOf(stack) : j < i }) ELSE NULL)

\* bam_stop called while no bam_start is running changes neither the context (run
\* result, quit flag and run-flag pointer included) nor any frame
C27_StopStep ==
    (op'.name = "stop" /\ LoopsOf(stack) = {}) => (bam' = bam /\ stack' = stack)

\* when a bam_start returns, the run-flag pointer is again the one that was active
\* when it was entered
C27_ReturnStep ==
    op'.name = "return" =>
        /\ bam'.run_flag = op'.frame.saved_run_flag
        /\ bam'.run_flag = (IF LoopsOf(stack') = {} THEN NULL ELSE SetMax(LoopsOf(stack')))

\* C27: bam_stop(r) called while no event loop is running changes nothing: run
\* result, quit flag and run-flag pointer keep their values; and when a bam_start
\* returns the run-flag pointer is the one that was active when it was entered, null
\* after the outermost loop, so the run flags form a chain used last in, first out
C27_RunFlagLifo == [] RunFlagChain /\ [][C27_StopStep /\ C27_ReturnStep]_vars

\* C27: after a loop returned 3 main called bam_stop(7): the run result is still 3
C27_Witness ==
    /\ op.name = "stop" /\ op.r = 7 /\ stack = << >>
    /\ bam.run_result = 3 /\ bam.run_flag = NULL

\* the innermost of three loops has returned: the run-flag pointer designates the
\* second, which saved the pointer to the first
C27_WitnessNested ==
    /\ op.name = "return" /\ Cardinality(LoopsOf(stack)) = 2
    /\ bam.run_flag = SetMax(LoopsOf(stack))
    /\ op.frame.saved_run_flag = bam.run_flag
    /\ stack[bam.run_flag].saved_run_flag = SetMin(LoopsOf(stack))

\* ------------------------------------------------------------------ quit flag

\* the quit flag goes from set to clear only in a step that enters bam_start with no
\* bam_start running; such a step leaves it clear, and a step that enters bam_start
\* inside a running loop leaves it as it was
C28_QuitFlagStep ==
    /\ (bam.quit_flag /\ ~bam'.quit_flag) => (op'.name = "start" /\ LoopsOf(stack) = {})
    /\ (op'.name = "start" /\ LoopsOf(stack) = {}) => ~bam'.quit_flag
    /\ (op'.name = "start" /\ LoopsOf(stack) # {}) => bam'.quit_flag = bam.quit_flag

\* an outermost bam_start returns only on a bam_stop, bam_quit or QUIT event that
\* acted while it was running, never on a quit from before it was entered
C28_OutermostReturn ==
    (op.name = "return" /\ LoopsOf(stack) = {}) =>
        (op.frame.by # "none" \/ op.frame.quit_seen)

\* while a loop that was running when bam_quit acted has not returned, the quit
\* flag is set
C28_QuitInForce ==
    (\E i \in LoopsOf(stack) : stack[i].quit_seen) => bam.quit_flag

\* C28: the quit flag is cleared only on entry to an outermost loop, never by a
\* bam_start entered as a nested loop; a bam_quit issued while no loop is running
\* does not keep the next outermost bam_start from running, and a quit issued in
\* a nested loop stays in force until every loop that was running has returned
C28_QuitFlag == [] (C28_OutermostReturn /\ C28_QuitInForce) /\ [][C28_QuitFlagStep]_vars

\* C28: a callback started a third loop after bam_quit(9) had acted on the second:
\* the quit flag is still set and the two loops outside have yet to return
C28_Witness ==
    /\ op.name = "start" /\ Cardinality(LoopsOf(stack)) = 3
    /\ bam.quit_flag /\ bam.run_result = 9
    /\ stack[SetMin(LoopsOf(stack))].quit_seen

\* main has entered a loop again after its last loop was ended by bam_quit(9): the
\* quit flag is clear and the loop is about to clean and wait
C28_WitnessOutermost ==
    /\ op.name = "start" /\ Cardinality(LoopsOf(stack)) = 1
    /\ ~bam.quit_flag /\ bam.run_result = 9 /\ Top.pc = "top"

\* ------------------------------------------------------------------ SpecDebug: handle-taking calls of a debug build

\* bam_panic_code_t
BAM_PANIC_CODE_INVALID_WIDGET_HANDLE == 3

\* BAM_ASSERT_WIDGET_HANDLE, lines 53-57: the expression the assertion of a debug
\* build tests, begin + handle lying in [begin, top)
BAM_ASSERT_WIDGET_HANDLE(b, handle) == handle >= 0 /\ handle < Len(b.widgets)

\* the calls that take a handle, each with the argument it is given here
DebugCalls ==
    { <<"force_redraw", NULL>>, <<"set_callback", "callback">>, <<"set_bounds", Rect(2, 0, 4, 1)>>,
      <<"get_bounds", NULL>>, <<"set_style", "alt">>, <<"get_style", NULL>>,
      <<"set_text", TextA>>, <<"get_text", NULL>>, <<"set_enabled", FALSE>>,
      <<"get_enabled", NULL>>, <<"set_metadata", 5>>, <<"get_metadata", NULL>> }

\* the handles tried: below the pool, in it, its top, beyond its end
DebugHandles == -1 .. 3

\* pools of no, one and two widgets, the last widget pressed or not, cleaned or not
DebugContexts ==
    { LET b1 == IF n >= 1 THEN bam_add_widget(MainContext, 0, 0, 2, 2, "NULL", TextA, TRUE)
                ELSE MainContext
          b2 == IF n >= 2 THEN bam_add_widget(b1, 2, 0, 2, 2, "NULL", "NULL", TRUE) ELSE b1
          b3 == IF pressed /\ n >= 1 THEN widget_set_pressed(b2, n - 1) ELSE b2
      IN  IF cleaned THEN dirty_clean(b3) ELSE b3 :
        n \in 0 .. 2, pressed \in BOOLEAN, cleaned \in BOOLEAN }

InitDebug ==
    /\ bam \in DebugContexts
    /\ \E c \in DebugCalls, widget \in DebugHandles : fn_in = SetterCall(c[1], widget, c[2])
    /\ fn_out = << >>
    /\ fn_pc = "call"
    /\ stack = << >>
    /\ op = NoOp
    /\ host_log = << >>

\* the context after the call, the assertions of its first lines having passed
DebugCallResult(b, call) ==
    CASE call.fn = "force_redraw" -> bam_force_widget_redraw(b, call.widget)
      [] call.fn = "set_callback" -> bam_set_widget_callback(b, call.widget, call.arg, 11)
      [] call.fn = "set_bounds" -> bam_set_widget_bounds(b, call.widget, call.arg)
      [] call.fn = "set_style" -> bam_set_widget_style(b, call.widget, call.arg)
      [] call.fn = "set_text" -> bam_set_widget_text(b, call.widget, call.arg)
      [] call.fn = "set_enabled" -> bam_set_widget_enabled(b, call.widget, call.arg)
      [] call.fn = "set_metadata" -> bam_set_widget_metadata(b, call.widget, call.arg)
      [] OTHER -> b

\* a call with a handle of the pool: the assertion passes and the call runs
DebugCallRuns ==
    /\ fn_pc = "call" /\ BAM_ASSERT_WIDGET_HANDLE(bam, fn_in.widget)
    /\ bam' = DebugCallResult(bam, fn_in)
    /\ fn_out' = bam
    /\ fn_pc' = "done"
    /\ op' = Op(fn_in.fn, fn_in.widget, 0, 0, 0, NoFrame)
    /\ UNCHANGED <<stack, host_log, fn_in>>

\* a call with any other handle: BAM_ASSERT is assert() of <assert.h> (lines 37-43),
\* whose failure ends the program; the panic function of the host is not called
DebugCallAborts ==
    /\ fn_pc = "call" /\ ~BAM_ASSERT_WIDGET_HANDLE(bam, fn_in.widget)
    /\ fn_out' = bam
    /\ fn_pc' = "done"
    /\ op' = Op("assert", fn_in.widget, 0, 0, 0, NoFrame)
    /\ UNCHANGED <<bam, stack, host_log, fn_in>>

NextDebug == DebugCallRuns \/ DebugCallAborts

SpecDebug == InitDebug /\ [][NextDebug]_vars

\* a call was made with a handle that is not the index of a widget of the pool
InvalidHandleCalled == fn_pc = "done" /\ fn_in.widget \notin Handles(fn_out)

\* C29: in a debug build a call that takes a handle, given a handle that is not the
\* index of a widget of the pool, ends in the panic function of the host with code
\* InvalidWidgetHandle, the context unchanged
C29_InvalidHandle_Original ==
    InvalidHandleCalled =>
        /\ op.name = "panic" /\ op.r = BAM_PANIC_CODE_INVALID_WIDGET_HANDLE
        /\ bam = fn_out

\* C29, what a debug build does: the call ends in a failed assert(), the panic
\* function of the host is not called and the context is unchanged; a call with a
\* handle of the pool does not end so
C29_InvalidHandleAsserts ==
    /\ InvalidHandleCalled => (op.name = "assert" /\ bam = fn_out /\ host_log = << >>)
    /\ (fn_pc = "done" /\ ~InvalidHandleCalled) => op.name = fn_in.fn

\* C29: bam_force_widget_redraw was called with the handle of the top of a pool of
\* two widgets, nothing being dirty: an assertion failed and nothing is dirty
C29_Witness ==
    /\ InvalidHandleCalled /\ fn_in.fn = "force_redraw" /\ fn_in.widget = 2
    /\ Len(bam.widgets) = 2 /\ DirtyTiles(bam) = {}
    /\ op.name = "assert"

\* ------------------------------------------------------------------ pressed pointer and state

\* the widget the pressed-widget pointer designates, if any, has state Pressed
PressedIsPressed(b) ==
    b.pressed_widget # NULL => widget_from_handle(b, b.pressed_widget).state = BAM_STATE_PRESSED

\* C33: whenever the pressed-widget pointer is not null the widget it designates
\* has state Pressed, whatever events and calls came before, bam_set_widget_enabled
\* on the pressed widget included
C33_PressedState_Original == PressedIsPressed(bam)

\* a step other than a call of bam_set_widget_enabled keeps the state of the pressed
\* widget Pressed; a call on the pressed widget gives it the state asked for and
\* leaves the pointer on it
C33_EnabledStep ==
    /\ (PressedIsPressed(bam) /\ op'.name # "set_enabled") => PressedIsPressed(bam')
    /\ (op'.name = "set_enabled" /\ op'.widget = bam.pressed_widget /\ bam.pressed_widget # NULL) =>
          /\ bam'.pressed_widget = bam.pressed_widget
          /\ widget_from_handle(bam', op'.widget).state \in {BAM_STATE_ENABLED, BAM_STATE_DISABLED}

\* a RELEASE event leaves the widget the pointer designated Enabled, whatever its
\* state was, and the pointer null
C33_ReleaseStep ==
    (op'.name = "RELEASE" /\ bam.pressed_widget # NULL) =>
        /\ widget_from_handle(bam', bam.pressed_widget).state = BAM_STATE_ENABLED
        /\ bam'.pressed_widget = NULL

\* C33, what the code does: the widget the pointer designates has state Pressed
\* until bam_set_widget_enabled is called on it; the call overwrites the state and
\* leaves the pointer, and the next RELEASE event makes the widget Enabled, a widget
\* that was set Disabled included
C33_PressedState == [][C33_EnabledStep /\ C33_ReleaseStep]_vars

\* C33: the loop waits for an event while the pointer designates a widget that main
\* set Disabled after the loop in which it was pressed had been left
C33_Witness ==
    /\ AtGetEvent /\ bam.pressed_widget # NULL
    /\ StateOf(bam, bam.pressed_widget) = BAM_STATE_DISABLED

\* ------------------------------------------------------------------ callbacks and the pressed widget

\* the step that enters a widget callback leaves the pressed-widget pointer null
\* and no widget of the pool in state Pressed
C34_CallbackStep ==
    CallbackEntered =>
        /\ bam'.pressed_widget = NULL
        /\ \A w \in Handles(bam') : StateOf(bam', w) # BAM_STATE_PRESSED

\* the pressed-widget pointer never designates a widget that is not in the pool,
\* whatever a callback deleted, added or started
C34_NoStalePointer ==
    bam.pressed_widget # NULL => bam.pressed_widget \in Handles(bam)

\* C34: at the moment the event loop invokes a widget callback the pressed-widget
\* pointer is null and no widget of the pool has state Pressed, so a callback that
\* deletes the widgets, rebuilds the scene or starts a nested loop leaves no pointer
\* to a deleted or replaced widget in the context
C34_CallbackUnpressed == [] C34_NoStalePointer /\ [][C34_CallbackStep]_vars

\* C34: the callback of the second widget has just been entered from a nested loop
C34_Witness ==
    /\ op.name = "RELEASE" /\ op.widget = 1 /\ Top.kind = "cb" /\ Top.widget = 1
    /\ Cardinality(LoopsOf(stack)) = 2
    /\ bam.pressed_widget = NULL /\ StateOf(bam, 1) = BAM_STATE_ENABLED

\* a callback entered on a release has deleted the widgets and added two: a loop it
\* started waits with the new second widget pressed
C34_WitnessRebuilt ==
    /\ AtGetEvent /\ Cardinality(LoopsOf(stack)) = 2
    /\ stack[Len(stack) - 1].kind = "cb" /\ stack[Len(stack) - 1].widget = 0
    /\ bam.pressed_widget = 1 /\ StateOf(bam, 1) = BAM_STATE_PRESSED
    /\ widget_from_handle(bam, 0).callback = "NULL"

\* ------------------------------------------------------------------ SpecFirst: the first Clean pass after bam_init

\* display and tile sizes: 3x2 tiles in one word per row, 33x2 tiles in two words per
\* row, 32x1 tiles filling one word
FirstConfigs ==
    { [w |-> 5, h |-> 3, tw |-> 2, th |-> 2],
      [w |-> 66, h |-> 2, tw |-> 2, th |-> 1],
      [w |-> 64, h |-> 1, tw |-> 2, th |-> 1] }

\* what a word of the buffer handed to bam_init may hold: nothing, the bit of the
\* last column of the word, every bit
FirstWords == { {}, {0}, BAM__UINT32_MASK }

\* the application is about to call bam_init with the sizes fn_in and a buffer of the
\* required length, or one word longer, holding anything
InitFirst ==
    /\ fn_in \in FirstConfigs
    /\ \E extra \in 0 .. 1 :
       \E prior \in [0 .. (BAM_DIRTY_BUFFER_SIZE(fn_in.w, fn_in.h, fn_in.tw, fn_in.th) + extra - 1)
                        -> FirstWords] :
          bam = Uninitialised(prior, TRUE)
    /\ fn_out = << >>
    /\ fn_pc = "init"
    /\ stack = << >>
    /\ op = NoOp
    /\ host_log = << >>

\* bam_init with a buffer that is large enough; fn_out keeps the buffer handed in
FirstInit ==
    /\ fn_pc = "init"
    /\ ~DirtyBufferTooSmall(BufferLen(bam), fn_in.w, fn_in.h, fn_in.tw, fn_in.th)
    /\ bam' = bam_init(bam.dirty_buffer, 1, fn_in.w, fn_in.h, fn_in.tw, fn_in.th)
    /\ op' = Op("init", NULL, 0, 0, 0, NoFrame)
    /\ fn_out' = bam.dirty_buffer
    /\ fn_pc' = "clean"
    /\ UNCHANGED <<stack, host_log, fn_in>>

\* the dirty_clean of the first loop iteration
FirstClean ==
    /\ fn_pc = "clean"
    /\ bam' = dirty_clean(bam)
    /\ host_log' = CleanCalls(bam)
    /\ op' = Op("clean", NULL, 0, 0, 0, NoFrame)
    /\ fn_pc' = "done"
    /\ UNCHANGED <<stack, fn_in, fn_out>>

NextFirst == FirstInit \/ FirstClean

SpecFirst == InitFirst /\ [][NextFirst]_vars

\* the blt_tile call c designates tile t of b
BltDesignates(b, c, t) == c.x = t[1] * b.tile_width /\ c.y = t[2] * b.tile_height

\* the bits of buf that stand for no tile of the display, as <<word, bit>>
StrayBits(b, buf) ==
    { p \in (DOMAIN buf) \X BAM__UINT32_MASK :
        p[2] \in buf[p[1]] /\ ~IsDisplayTile(b, TileOfBit(b, p[1], p[2])) }

\* C35 as the specification states it: every blt_tile call of the first pass
\* designates a tile of the display, whatever the buffer handed to bam_init held and
\* whatever its length at or above the required size.
C35_BltOnDisplay_Original ==
    fn_pc = "done" =>
        \A i \in BltCalls(host_log) :
            \E t \in DisplayTiles(bam) : BltDesignates(bam, host_log[i], t)

\* C35: the first pass after bam_init issues one blt_tile for every tile of the
\* display and one for every bit the buffer handed in held set outside the display
\* (padding columns of the last word of a row, words past the required size), and
\* no other: its blt_tile calls all designate display tiles exactly when the buffer
\* held no such bit.
C35_BltOnDisplay ==
    fn_pc = "done" =>
        /\ \A t \in DisplayTiles(bam) :
              Cardinality({ i \in BltCalls(host_log) : BltDesignates(bam, host_log[i], t) }) = 1
        /\ \A p \in StrayBits(bam, fn_out) :
              Cardinality({ i \in BltCalls(host_log) :
                              BltDesignates(bam, host_log[i], TileOfBit(bam, p[1], p[2])) }) = 1
        /\ Cardinality(BltCalls(host_log)) =
              Cardinality(DisplayTiles(bam)) + Cardinality(StrayBits(bam, fn_out))
        /\ \A i \in DOMAIN bam.dirty_buffer : bam.dirty_buffer[i] = {}

\* C35 witness: bam_init was given a buffer of exactly the required two words for a
\* display of 3x2 tiles, its second word holding the bit of column 31; the pass
\* that followed issued blt_tile(62, 2), 56 pixels right of the 5-pixel display
C35_Witness ==
    /\ fn_pc = "done" /\ fn_in.w = 5 /\ BufferLen(bam) = 2
    /\ fn_out = (0 :> {} @@ 1 :> {0})
    /\ BltCallsAt(host_log, 62, 2) # {}
    /\ Cardinality(BltCalls(host_log)) = 7

\* ------------------------------------------------------------------ SpecBounds: the words Mark and Clean touch

\* the pointers dirty_mark_rect dereferences for the tile rectangle clip, each with
\* the tile row y of the loop iteration that dereferences it: <<y, pointer>>
MarkTouched(b, clip) ==
    IF rect_empty(clip) THEN {}
    ELSE
        LET x2 == clip.x2 - 1
            y2 == clip.y2 - 1
            left_ptr == clip.y1 * b.dirty_buffer_pitch + (clip.x1 \div BAM__UINT32_N_BITS)
            right_ptr == clip.y1 * b.dirty_buffer_pitch + (x2 \div BAM__UINT32_N_BITS)
            step(y) == (y - clip.y1) * b.dirty_buffer_pitch
        IN  IF left_ptr = right_ptr
            THEN { << y, left_ptr + step(y) >> : y \in clip.y1 .. y2 }
            ELSE UNION { { << y, p >> : p \in { left_ptr + step(y), right_ptr + step(y) }
                                          \cup ((left_ptr + step(y) + 1) .. (right_ptr + step(y) - 1)) }
                         : y \in clip.y1 .. y2 }

\* the pointers the do-while loop of dirty_clean dereferences from dirty_i on
RECURSIVE CleanTouchedFrom(_, _)
CleanTouchedFrom(b, dirty_i) ==
    {dirty_i} \cup (IF dirty_i + 1 < Cardinality(DOMAIN b.dirty_buffer)
                    THEN CleanTouchedFrom(b, dirty_i + 1) ELSE {})

\* the geometries of MarkConfigs whose rows take two words and one word
BoundsConfigs == { c \in MarkConfigs : c.w < 100 }

\* a context whose buffer has the required length, or one word more, and a rectangle
\* about to be marked
InitBounds ==
    /\ \E c \in BoundsConfigs, extra \in 0 .. 1 :
         /\ \E prior \in { ConstBuffer(BAM_DIRTY_BUFFER_SIZE(c.w, c.h, c.tw, c.th) + extra, {}) } :
              bam = [bam_init(prior, 0, c.w, c.h, c.tw, c.th) EXCEPT !.dirty_buffer = prior]
         /\ fn_in \in MarkRects(c)
    /\ fn_out = [mark |-> {}, clean |-> {}]
    /\ fn_pc = "call"
    /\ stack = << >>
    /\ op = NoOp
    /\ host_log = << >>

\* dirty_mark_rect(bam, fn_in); fn_out.mark keeps the pointers it dereferenced
BoundsMark ==
    /\ fn_pc = "call"
    /\ bam' = dirty_mark_rect(bam, fn_in)
    /\ fn_out' = [fn_out EXCEPT !.mark = MarkTouched(bam, MarkClip(bam, fn_in))]
    /\ op' = Op("mark", NULL, 0, 0, 0, NoFrame)
    /\ fn_pc' = "marked"
    /\ UNCHANGED <<stack, host_log, fn_in>>

\* dirty_clean(bam); fn_out.clean keeps the pointers it dereferenced
BoundsClean ==
    /\ fn_pc = "marked"
    /\ bam' = dirty_clean(bam)
    /\ host_log' = CleanCalls(bam)
    /\ fn_out' = [fn_out EXCEPT !.clean = CleanTouchedFrom(bam, 0)]
    /\ op' = Op("clean", NULL, 0, 0, 0, NoFrame)
    /\ fn_pc' = "done"
    /\ UNCHANGED <<stack, fn_in>>

NextBounds == BoundsMark \/ BoundsClean

SpecBounds == InitBounds /\ [][NextBounds]_vars

\* BAM_ASSERT_DIRTY_BUFFER_PTR(b, ptr): begin <= ptr < end
InDirtyBuffer(b, ptr) == 0 <= ptr /\ ptr < BufferLen(b)

\* C36: with a buffer of at least the required size, every word dirty_mark_rect and
\* dirty_clean read or write lies in [dirty_buffer_begin, dirty_buffer_end), for every
\* rectangle (off-screen, negative, empty, inverted, larger than the display) and
\* display sizes that are no multiple of the tile size; and the iteration of tile
\* row r of a mark touches words of row r only.
C36_WordsInBuffer ==
    /\ \A p \in fn_out.mark :
          /\ InDirtyBuffer(bam, p[2])
          /\ 0 <= p[1] /\ p[1] < TileRows(bam)
          /\ p[1] * bam.dirty_buffer_pitch <= p[2]
          /\ p[2] < (p[1] + 1) * bam.dirty_buffer_pitch
    /\ \A ptr \in fn_out.clean : InDirtyBuffer(bam, ptr)
    /\ fn_pc = "done" =>
          /\ fn_out.clean = DOMAIN bam.dirty_buffer
          /\ \A t \in TilesOverlapping(bam, fn_in) :
                \E p \in fn_out.mark :
                    p = << t[2], t[2] * bam.dirty_buffer_pitch + (t[1] \div BAM__UINT32_N_BITS) >>

\* C36 witness: a rectangle larger than the 69x5 display (35x3 tiles, two words per
\* row) was marked and cleaned: the mark touched the six words of the three rows
C36_Witness ==
    /\ fn_pc = "done" /\ bam.disp_width = 69 /\ BufferLen(bam) = 6
    /\ fn_in = Rect(-3, -1, 71, 7)
    /\ fn_out.mark = { <<0, 0>>, <<0, 1>>, <<1, 2>>, <<1, 3>>, <<2, 4>>, <<2, 5>> }
    /\ Len(host_log) = 210

\* C36 witness: an inverted rectangle beyond the display touched no word, and the
\* pass read the seven words of a buffer one word longer than required
C36_WitnessInverted ==
    /\ fn_pc = "done" /\ bam.disp_width = 69 /\ BufferLen(bam) = 7
    /\ fn_in = Rect(71, 7, -3, -1) /\ fn_out.mark = {} /\ fn_out.clean = 0 .. 6

\* ------------------------------------------------------------------ SpecDecode: the decoding loop over a text

\* the bytes texts are made of: 'A', the lead bytes of 2, 3 and 4 byte sequences, a
\* continuation byte, and a byte that starts no sequence
DecodeBytes == { 65, 195, 226, 240, 169, 255 }

\* the longest text tried, in bytes
MaxText == 3

DecodeTexts == UNION { [1 .. n -> DecodeBytes] : n \in 0 .. MaxText }

\* a text in memory, followed by its NUL and by three bytes of whatever the memory
\* held, and a caller about to measure or draw it
InitDecode ==
    /\ \E bytes \in DecodeTexts, after \in {0, 255} : fn_in = StrMem(bytes, after)
    /\ fn_out = [text_i |-> 1, text_e |-> 1, reads |-> {}, cursor_x |-> 0]
    /\ fn_pc = "call"
    /\ bam = Uninitialised(ConstBuffer(1, {}), FALSE)
    /\ stack = << >>
    /\ op = NoOp
    /\ host_log = << >>

\* const uint8_t* text_e = text_i + strlen(text)
DecodeBegin ==
    /\ fn_pc = "call"
    /\ fn_out' = [fn_out EXCEPT !.text_e = 1 + strlen(fn_in)]
    /\ op' = Op("strlen", NULL, 0, 0, 0, NoFrame)
    /\ fn_pc' = "loop"
    /\ UNCHANGED <<bam, stack, host_log, fn_in>>

\* one iteration of while (text_i < text_e): unicode_decode_utf8 reads seq[0] to
\* seq[3] and returns the next position; the glyph, if the font has it, advances
\* the cursor
DecodeStep ==
    /\ fn_pc = "loop"
    /\ fn_out.text_i < fn_out.text_e
    /\ \E d \in { unicode_decode_utf8(fn_in, fn_out.text_i) } :
       \E m \in { get_glyph_metrics("font", d.unichar) } :
          fn_out' = [fn_out EXCEPT !.text_i = d.next,
                                   !.reads = @ \cup (fn_out.text_i .. (fn_out.text_i + 3)),
                                   !.cursor_x = IF m.present THEN Int16(@ + m.x_advance) ELSE @]
    /\ op' = Op("decode", NULL, fn_out.text_i, 0, 0, NoFrame)
    /\ UNCHANGED <<bam, stack, host_log, fn_in, fn_pc>>

\* the loop condition fails
DecodeEnd ==
    /\ fn_pc = "loop"
    /\ ~(fn_out.text_i < fn_out.text_e)
    /\ op' = Op("end", NULL, fn_out.text_i, 0, 0, NoFrame)
    /\ fn_pc' = "done"
    /\ UNCHANGED <<bam, stack, host_log, fn_in, fn_out>>

NextDecode == DecodeBegin \/ DecodeStep \/ DecodeEnd

SpecDecode == InitDecode /\ [][NextDecode]_vars

\* the index of the terminating NUL of the text in mem
NulOf(mem) == 1 + strlen(mem)

\* C31 as the specification states it: the decoder reads no byte after the
\* terminating NUL of the text.
C31_NoReadPastNul_Original ==
    \A i \in fn_out.reads : i <= NulOf(fn_in)

\* each iteration advances the text position by 1 to 4 bytes
C31_AdvanceStep ==
    op'.name = "decode" =>
        /\ fn_out'.text_i - fn_out.text_i \in 1 .. 4
        /\ fn_out.text_i < NulOf(fn_in)

\* every byte read is the NUL, a byte before it or one of the three bytes after it,
\* and the position never passes the third byte after the NUL
C31_ReadsBounded ==
    /\ \A i \in fn_out.reads : 1 <= i /\ i <= NulOf(fn_in) + 3
    /\ fn_out.text_i <= NulOf(fn_in) + 3
    /\ fn_pc = "done" => fn_out.text_i >= NulOf(fn_in)
    /\ (fn_pc = "done" /\ strlen(fn_in) > 0 /\ \A i \in 1 .. strlen(fn_in) : fn_in[i] < 128) =>
          (NulOf(fn_in) + 2) \in fn_out.reads

\* C31: the decoding loop over a NUL-terminated text advances 1 to 4 bytes per
\* iteration, starts every iteration before the NUL and so ends; each iteration
\* reads four bytes, so a non-empty ASCII text has the two bytes after its NUL read,
\* and no text has a byte read beyond the third after its NUL.
C31_DecodeBounded == [] C31_ReadsBounded /\ [][C31_AdvanceStep]_vars

\* C31 witness: the text "A" followed by a truncated 4-byte lead was decoded: the
\* second iteration read the NUL and the two bytes after it as continuation bytes
\* and left the position three bytes past the NUL
C31_Witness ==
    /\ fn_pc = "done" /\ strlen(fn_in) = 2 /\ fn_in[1] = 65 /\ fn_in[2] = 240
    /\ fn_out.reads = 1 .. 5 /\ fn_out.text_i = 6 /\ fn_out.cursor_x = 1

\* ------------------------------------------------------------------ SpecKeys: key sequences in the editors

\* the keys of the number editor the user touches: '1', '.', '-', Backspace, Clear,
\* Accept, Cancel
KeysOfNumber ==
    { 8, BAM_EDIT_NUMBER_KEY_DP, BAM_EDIT_NUMBER_KEY_MINUS, BAM_EDIT_NUMBER_KEY_BACKSPACE,
      BAM_EDIT_NUMBER_KEY_CLEAR, BAM_EDIT_NUMBER_KEY_ACCEPT, BAM_EDIT_NUMBER_KEY_CANCEL }

\* the keys of the string editor the user touches: 'a', Shift, Space, Backspace,
\* Clear, Accept, Cancel
KeysOfString ==
    { 20, BAM_EDIT_STRING_KEY_SHIFT, BAM_EDIT_STRING_KEY_SPACE, BAM_EDIT_STRING_KEY_BACKSPACE,
      BAM_EDIT_STRING_KEY_CLEAR, BAM_EDIT_STRING_KEY_ACCEPT, BAM_EDIT_STRING_KEY_CANCEL }

\* the size of the buffer main hands to bam_edit_string
KeysBufferSize == 4

\* the keys the user touches before Accept, Cancel or QUIT: at most MaxKeys
MaxKeys == 5

\* the number editor calls main makes, with the value it holds: -3, 20, 0.5 and
\* 1111111111111.5, whose text fills the buffer
KeysNumberCalls ==
    { [fn |-> "bam_edit_integer", is_signed |-> TRUE, value |-> -3],
      [fn |-> "bam_edit_integer", is_signed |-> FALSE, value |-> 20],
      [fn |-> "bam_edit_integer", is_signed |-> FALSE, value |-> -3],
      [fn |-> "bam_edit_real", is_signed |-> TRUE, value |-> Real(FALSE, << >>, <<53>>)],
      [fn |-> "bam_edit_real", is_signed |-> TRUE,
       value |-> Real(FALSE, [i \in 1 .. 13 |-> 49], <<53>>)] }

\* what the buffer main hands to bam_edit_string holds: nothing, a character of two
\* bytes, one of three bytes that fills it, four bytes without a NUL
KeysTexts == { << >>, <<195, 169>>, <<226, 130, 172>>, <<240, 159, 152, 128>> }

\* main is about to call an editor on an empty scene
InitKeys ==
    /\ \/ /\ bam = NumberContext
          /\ \E call \in KeysNumberCalls :
                fn_in = [fn |-> call.fn, is_signed |-> call.is_signed, value |-> call.value,
                         ctx |-> << >>, last_key |-> NULL, keys |-> 0]
       \/ /\ bam = StringContext
          /\ \E text \in KeysTexts :
                fn_in = [fn |-> "bam_edit_string", buffer |-> CallerBuffer(text, KeysBufferSize),
                         buffer_size |-> KeysBufferSize, allow_empty |-> FALSE, ctx |-> << >>, keys |-> 0,
                         caller |-> CallerBuffer(text, KeysBufferSize)]
    /\ fn_out = << >>
    /\ fn_pc = "call"
    /\ stack = << >>
    /\ op = NoOp
    /\ host_log = << >>

\* main calls bam_edit_string: the call up to the entry of the event loop
KeysStringCall == fn_in.fn = "bam_edit_string" /\ EditStringCall

\* main calls bam_edit_integer or bam_edit_real: the call up to the entry of the
\* event loop; fn_out keeps the value and the quit flag at the call
KeysNumberCall ==
    /\ fn_in.fn # "bam_edit_string" /\ fn_pc = "call" /\ AppRunning
    /\ \E e \in { IF fn_in.fn = "bam_edit_real"
                   THEN bam_edit_real(bam, fn_in.value, EditorStyle)
                   ELSE bam_edit_integer(bam, fn_in.value, fn_in.is_signed, EditorStyle) } :
           /\ ~e.panic
           /\ EditorStarts(e.bam)
           /\ fn_in' = [fn_in EXCEPT !.ctx = e.ctx, !.last_key = NULL]
    /\ fn_out' = [value |-> fn_in.value, quit_flag |-> bam.quit_flag]
    /\ op' = Op("edit_number_call", NULL, 0, 0, 0, NoFrame)
    /\ fn_pc' = "edit"

\* the point of key i of the editor that runs
KeysPoint(i) == IF fn_in.fn = "bam_edit_string" THEN KeyPoint(i) ELSE NumberKeyPoint(i)

\* the user taps the keys: get_event returns a PRESS on a key while no key is
\* pressed, a RELEASE on the key that is pressed, or QUIT
GetEventKeys ==
    \/ LoopEvent([type |-> "QUIT", x |-> 0, y |-> 0], TRUE)
    \/ AtGetEvent /\ \E i \in IF fn_in.fn = "bam_edit_string" THEN KeysOfString ELSE KeysOfNumber :
          \/ /\ bam.pressed_widget = NULL /\ fn_in.keys < MaxKeys
             /\ LoopEvent([type |-> "PRESS", x |-> KeysPoint(i)[1], y |-> KeysPoint(i)[2]], TRUE)
          \/ /\ bam.pressed_widget = Key(fn_in.ctx, i)
             /\ LoopEvent([type |-> "RELEASE", x |-> KeysPoint(i)[1], y |-> KeysPoint(i)[2]], TRUE)

\* edit_string_key_func runs for the key that was triggered and returns to the loop;
\* fn_out keeps the editor context the key found
KeysStringKey ==
    /\ InKeyFunc("edit_string_key_func")
    /\ \E r \in { edit_string_key_func(Machine(bam, stack), fn_in.ctx, Top.widget) } :
       LET metadata == bam_get_widget_metadata(bam, Top.widget)
       IN  /\ bam' = r.m.bam
           /\ stack' = KeyFuncReturns(r.m.stack,
                            metadata \in {BAM_EDIT_STRING_METADATA_CANCEL,
                                          BAM_EDIT_STRING_METADATA_ACCEPT},
                            r.m.bam.run_result)
           /\ fn_in' = [fn_in EXCEPT !.ctx = r.ctx, !.buffer = r.ctx.buffer, !.keys = @ + 1]
           /\ fn_out' = fn_in.ctx
           /\ op' = Op("key", Top.widget, 0, 0, metadata, NoFrame)
    /\ host_log' = << >>
    /\ UNCHANGED fn_pc

\* edit_number_key_func runs for the key that was triggered and returns to the loop
KeysNumberKey ==
    /\ InKeyFunc("edit_number_key_func")
    /\ \E r \in { edit_number_key_func(Machine(bam, stack), fn_in.ctx, Top.widget) } :
       LET metadata == bam_get_widget_metadata(bam, Top.widget)
       IN  /\ bam' = r.m.bam
           /\ stack' = KeyFuncReturns(r.m.stack,
                            metadata \in {BAM_EDIT_NUMBER_METADATA_CANCEL,
                                          BAM_EDIT_NUMBER_METADATA_ACCEPT},
                            r.m.bam.run_result)
           /\ fn_in' = [fn_in EXCEPT
                            !.ctx = r.ctx, !.keys = @ + 1,
                            !.last_key = CHOOSE i \in 0 .. 15 : Key(fn_in.ctx, i) = Top.widget]
           /\ op' = Op("key", Top.widget, 0, 0, metadata, NoFrame)
    /\ host_log' = << >>
    /\ UNCHANGED <<fn_out, fn_pc>>

KeysStringReturn == fn_in.fn = "bam_edit_string" /\ EditStringReturn

KeysNumberReturn == fn_in.fn # "bam_edit_string" /\ EditNumberReturn

NextKeys ==
    \/ KeysStringCall \/ KeysNumberCall \/ LoopClean \/ GetEventKeys \/ LoopCheck
    \/ KeysStringKey \/ KeysNumberKey \/ KeysStringReturn \/ KeysNumberReturn

SpecKeys == InitKeys /\ [][NextKeys]_vars

\* ------------------------------------------------------------------ editors: the buffer and the edit cursor

\* the event loop of an editor runs or has returned: fn_in.ctx is its context
EditorCalled == fn_pc # "call"

\* the key function ran for a key that appends: a character key or Space in the
\* string editor, a key whose metadata is its character in the number editor
CharKeyStep ==
    /\ op'.name = "key"
    /\ IF fn_in.fn = "bam_edit_string"
       THEN op'.r \in {BAM_EDIT_STRING_METADATA_CHAR, BAM_EDIT_STRING_METADATA_SPACE}
       ELSE op'.r \notin {BAM_EDIT_NUMBER_METADATA_BACKSPACE, BAM_EDIT_NUMBER_METADATA_CLEAR,
                          BAM_EDIT_NUMBER_METADATA_ACCEPT, BAM_EDIT_NUMBER_METADATA_CANCEL}

\* the cursor is inside the buffer, the text ends with a NUL where the cursor stands
\* and is at most capacity - 1 bytes long (15 in the number editor)
C32_CursorInBuffer ==
    EditorCalled =>
        /\ Len(fn_in.ctx.buffer) = fn_in.ctx.buffer_size
        /\ 0 <= fn_in.ctx.buffer_ptr /\ fn_in.ctx.buffer_ptr <= fn_in.ctx.buffer_size - 1
        /\ fn_in.ctx.buffer[fn_in.ctx.buffer_ptr + 1] = 0
        /\ strlen(fn_in.ctx.buffer) = fn_in.ctx.buffer_ptr
        /\ fn_in.fn # "bam_edit_string" =>
              fn_in.ctx.buffer_size = BAM_EDIT_NUMBER_BUFFER_SIZE /\ fn_in.ctx.buffer_ptr <= 15

\* a character key on a full buffer changes neither the editor context nor the scene
C32_FullStep ==
    (CharKeyStep /\ fn_in.ctx.buffer_ptr = fn_in.ctx.buffer_size - 1) =>
        fn_in'.ctx = fn_in.ctx /\ bam' = bam

\* C32: in the number and string editors, after any sequence of keys (character
\* keys, Backspace, Clear, Shift, Space) the edit cursor stays within the buffer, the
\* text is NUL-terminated inside the buffer and its length is at most capacity - 1
\* (15 for the number editor); a character key on a full buffer changes nothing.
C32_EditorBuffer == [] C32_CursorInBuffer /\ [][C32_FullStep]_vars

\* C32 witness: the number editor was opened on 1111111111111.5, whose 15
\* characters fill the buffer, and the first key touched was '1'
C32_Witness ==
    /\ fn_in.fn = "bam_edit_real" /\ op.name = "key" /\ op.r = 49 /\ fn_in.keys = 1
    /\ fn_in.ctx.buffer_ptr = 15 /\ fn_in.ctx.buffer[15] = 53

\* C32 witness: the string editor was opened on a buffer of 4 bytes holding a
\* character of 3 bytes; the key 'a' found the buffer full and left it as it was
C32_WitnessString ==
    /\ fn_in.fn = "bam_edit_string" /\ op.name = "key" /\ op.r = BAM_EDIT_STRING_METADATA_CHAR
    /\ fn_out = fn_in.ctx /\ fn_in.ctx.buffer_ptr = 3 /\ fn_in.ctx.buffer = <<226, 130, 172, 0>>

\* C32 witness: Shift, then 'A' and Space were appended to an empty buffer, Backspace
\* took the Space, and Clear emptied the buffer
C32_WitnessKeys ==
    /\ fn_in.fn = "bam_edit_string" /\ op.name = "key" /\ op.r = BAM_EDIT_STRING_METADATA_CLEAR
    /\ fn_in.keys = 5 /\ fn_in.ctx.shifted /\ fn_in.ctx.buffer = <<0, 32, 0, 0>>

\* ------------------------------------------------------------------ number editor: the format of the text

\* the number editor was called: fn_in.ctx is its context
NumberCalled == fn_in.fn # "bam_edit_string" /\ fn_pc # "call"

\* the text the editor was opened on suits its type: an unsigned editor was not
\* given a negative value (fn_out keeps the value at the call)
WellFormedCall ==
    ~(fn_in.fn = "bam_edit_integer" /\ ~fn_in.is_signed /\ fn_out.value < 0)

\* text matches -?digit+(.digit+)?
MatchesNumber(text) ==
    LET body == IF text # << >> /\ text[1] = 45 THEN Tail(text) ELSE text
        dots == { k \in DOMAIN body : body[k] = 46 }
    IN  /\ body # << >>
        /\ \A k \in DOMAIN body : body[k] = 46 \/ (body[k] >= 48 /\ body[k] <= 57)
        /\ Cardinality(dots) <= 1
        /\ \A k \in dots : 1 < k /\ k < Len(body)

\* the Accept key of the number editor is not Disabled
AcceptEnabled ==
    StateOf(bam, Key(fn_in.ctx, BAM_EDIT_NUMBER_KEY_ACCEPT)) # BAM_STATE_DISABLED

\* the number editor returned true
NumberAccepted == op.name = "edit_number" /\ op.r = 1

\* C37: in the number editor opened on a well-formed text, '-' is only ever the
\* first character and only in the signed and real editors; there is at most one
\* '.', only in the real editor and only after a digit; Accept is enabled iff the
\* text is not empty and ends in a digit; an accepted text matches
\* -?digit+(.digit+)?.
C37_NumberFormat ==
    (NumberCalled /\ WellFormedCall) =>
        LET text == TextOf(fn_in.ctx.buffer)
            type == fn_in.ctx.type
        IN  /\ \A k \in DOMAIN text :
                  /\ text[k] \in {45, 46} \/ lex_is_digit(text[k])
                  /\ text[k] = 45 => (k = 1 /\ type # "UNSIGNED_INT")
                  /\ text[k] = 46 => (type = "REAL" /\ k > 1 /\ lex_is_digit(text[k - 1]))
            /\ Cardinality({ k \in DOMAIN text : text[k] = 46 }) <= 1
            /\ AcceptEnabled <=> (text # << >> /\ lex_is_digit(text[Len(text)]))
            /\ NumberAccepted => MatchesNumber(text)

\* C37 witness: the real editor opened on 0.5 was cleared and "-1.1" was typed:
\* Accept is enabled, '-' and '.' are not
C37_Witness ==
    /\ fn_in.fn = "bam_edit_real" /\ fn_pc = "edit" /\ op.name = "key" /\ fn_in.keys = 5
    /\ TextOf(fn_in.ctx.buffer) = <<45, 49, 46, 49>>
    /\ AcceptEnabled
    /\ StateOf(bam, Key(fn_in.ctx, BAM_EDIT_NUMBER_KEY_DP)) = BAM_STATE_DISABLED
    /\ StateOf(bam, Key(fn_in.ctx, BAM_EDIT_NUMBER_KEY_MINUS)) = BAM_STATE_DISABLED

\* C37 witness: the real editor returned true on "1.1", typed after Clear
C37_WitnessAccepted ==
    /\ fn_in.fn = "bam_edit_real" /\ NumberAccepted
    /\ TextOf(fn_in.ctx.buffer) = <<49, 46, 49>>

\* C37 witness: the signed editor, opened on -3, stands on "-" after Backspace, with
\* Accept disabled
C37_WitnessMinus ==
    /\ fn_in.fn = "bam_edit_integer" /\ fn_in.is_signed /\ fn_pc = "edit" /\ AtGetEvent
    /\ TextOf(fn_in.ctx.buffer) = <<45>> /\ ~AcceptEnabled

\* ------------------------------------------------------------------ number editor: the unsigned editor

\* bam_edit_integer with is_signed = false returned true
UnsignedAccepted == NumberAccepted /\ fn_in.fn = "bam_edit_integer" /\ ~fn_in.is_signed

\* C39 as the specification states it: bam_edit_integer with is_signed = false, when
\* it returns accepted, yields a value >= 0 whatever the initial value and the keys.
C39_UnsignedValue_Original ==
    UnsignedAccepted => fn_in.value >= 0

\* C39: the value bam_edit_integer(is_signed = false) yields when it returns accepted
\* is negative exactly when the text still starts with the '-' of a negative initial
\* value; an editor opened on a value >= 0 yields a value >= 0.
C39_UnsignedValue ==
    UnsignedAccepted =>
        LET text == TextOf(fn_in.ctx.buffer)
        IN  /\ fn_in.value = ParseInt(text)
            /\ fn_in.value < 0 <=> text[1] = 45
            /\ text[1] = 45 => fn_out.value < 0
            /\ fn_out.value >= 0 => fn_in.value >= 0

\* C39 witness: the unsigned editor was opened on -3 and Accept, enabled from the
\* start, was the only key touched: the caller's value is -3
C39_Witness ==
    /\ UnsignedAccepted /\ fn_out.value = -3 /\ fn_in.keys = 1 /\ fn_in.value = -3
    /\ fn_in.last_key = BAM_EDIT_NUMBER_KEY_ACCEPT

\* ------------------------------------------------------------------ string editor: Accept and Cancel

\* bam_edit_string was called: fn_in.ctx is its context, fn_in.ctx.buffer the
\* caller's buffer (the editor works in place), fn_in.caller its bytes at the call
StringCalled == fn_in.fn = "bam_edit_string" /\ fn_pc # "call"

\* the Accept key of the string editor is not Disabled
StringAcceptEnabled ==
    StateOf(bam, Key(fn_in.ctx, BAM_EDIT_STRING_KEY_ACCEPT)) # BAM_STATE_DISABLED

\* bam_edit_string returned true / false
StringAccepted == StringCalled /\ op.name = "edit_string" /\ op.r = 1

StringCancelled == StringCalled /\ op.name = "edit_string" /\ op.r = 0

\* the caller's buffer as line 1434 leaves it: its last byte set to NUL
Terminated(buffer) == WriteBytes(buffer, Len(buffer) - 1, <<0>>)

\* C38 as the specification states it: with allow_empty = false bam_edit_string never
\* returns accepted with an empty buffer, and from the start of the loop Accept is
\* enabled only while the text is not empty, whatever the buffer held at the call.
C38_AcceptNonEmpty_Original ==
    (StringCalled /\ ~fn_in.ctx.allow_empty) =>
        /\ StringAccepted => TextOf(fn_in.ctx.buffer) # << >>
        /\ (fn_pc = "edit" /\ StringAcceptEnabled) => TextOf(fn_in.ctx.buffer) # << >>

\* C38: with allow_empty = false, Accept is enabled on an empty text, and
\* bam_edit_string returns accepted with an empty buffer, only when the editor was
\* opened on an empty text and no key has run edit_string_enforce_format since: the
\* buffer is still as the call left it.
C38_AcceptNonEmpty ==
    (StringCalled /\ ~fn_in.ctx.allow_empty /\ TextOf(fn_in.ctx.buffer) = << >>) =>
        /\ StringAcceptEnabled =>
              /\ TextOf(fn_in.caller) = << >>
              /\ fn_in.ctx.buffer = Terminated(fn_in.caller)
        /\ StringAccepted => StringAcceptEnabled

\* C38 witness: bam_edit_string(allow_empty = false) was called on an empty buffer and
\* Accept was the only key touched: it returned true, the buffer is empty
C38_Witness ==
    /\ StringAccepted /\ ~fn_in.ctx.allow_empty /\ fn_in.keys = 1
    /\ TextOf(fn_in.ctx.buffer) = << >> /\ TextOf(fn_in.caller) = << >>

\* C40 as the specification states it: when bam_edit_string returns not accepted
\* (Cancel or QUIT) the caller's buffer holds the bytes it held at the call, whatever
\* keys were touched.
C40_CancelRestores_Original ==
    StringCancelled => fn_in.ctx.buffer = fn_in.caller

\* C40: when bam_edit_string returns not accepted the caller's buffer holds what the
\* keys left in it: its last byte is NUL, and it differs from the bytes at the call
\* only if a key was touched or the last byte was not NUL at the call; nothing
\* restores the bytes at the call.
C40_CancelRestores ==
    StringCancelled =>
        /\ fn_in.ctx.buffer[fn_in.ctx.buffer_size] = 0
        /\ fn_in.ctx.buffer[fn_in.ctx.buffer_ptr + 1] = 0
        /\ fn_in.keys = 0 => fn_in.ctx.buffer = Terminated(fn_in.caller)
        /\ fn_in.ctx.buffer # fn_in.caller =>
              (fn_in.keys > 0 \/ fn_in.caller[fn_in.ctx.buffer_size] # 0)

\* C40 witness: 'a' and then Cancel were touched in an editor opened on an empty
\* buffer: it returned false and the caller's buffer holds "a"
C40_Witness ==
    /\ StringCancelled /\ fn_in.keys = 2 /\ op.frame.by = "stop"
    /\ TextOf(fn_in.caller) = << >> /\ TextOf(fn_in.ctx.buffer) = <<97>>

\* C40 witness: QUIT arrived after Clear in an editor opened on a character of two
\* bytes: it returned false and the caller's buffer is empty
C40_WitnessQuit ==
    /\ StringCancelled /\ fn_in.keys = 1 /\ op.frame.by = "quit"
    /\ TextOf(fn_in.caller) = <<195, 169>> /\ TextOf(fn_in.ctx.buffer) = << >>

====
